---- MODULE Spec2Model ----
(***************************************************************************)
(* Contact discovery of deal_research.py: the six search passes that fill  *)
(* the MARKETING and LEADERSHIP buckets, URL validation and repair, the    *)
(* fallback to the broad grounded search, and the champion handling of     *)
(* main().                                                                 *)
(***************************************************************************)
EXTENDS Integers, Sequences, FiniteSets, TLC

\* ------------------------------------------------------------------ bounds
\* Profile URLs are 1..NumUrls; URL 0 is a linkedin.com page that is not a
\* personal profile (no "linkedin.com/in/" in it).
NumUrls == 6
\* Keyword queries per pass (the code issues 9, 5 and 4).
NumQueries == 1
\* The repair search answers with one of the URLs 1..MaxRepairUrl.
MaxRepairUrl == 1
\* Probes of one run that answer 404.
MaxNotFound == 1

\* A validator called on its own: its input holds up to MaxProfiles of the
\* URLs 1..NumValidatorUrls, and it is run up to MaxRuns times in a row.
MaxProfiles == 2
NumValidatorUrls == 4
MaxRuns == 2
\* champion dedup on its own: the longest contacts text and champion name
MaxTextLen == 5
MaxNameLen == 2
\* the contacts section of main: the most blocks the contacts text has
MaxBlocks == 2
\* the merge on its own: profile URLs 1..NumMergeUrls, the largest map a pass
\* returns, the most passes that run
NumMergeUrls == 3
MaxMergeProfiles == 2
MaxMerges == 3
\* the keyword adapter on its own: its queries, the rows one query answers,
\* the profile URLs 1..NumAdapterUrls
NumAdapterQueries == 3
MaxAdapterRows == 2
NumAdapterUrls == 2
\* extract_and_strip_linkedin_lines on its own: the most lines of a text
MaxStripLines == 5

\* The largest validated buckets the prompt is built from, each two past the
\* number of entries the prompt lists.
MaxFormatMarketing == 17
MaxFormatLeadership == 12

\* --------------------------------------------------------- program constants
BucketTarget == 5
MinValidProfiles == 3
\* [:15] and [:10], lines 737 and 746
MarketingCap == 15
LeadershipCap == 10
\* max_results=5 of the keyword search request
MaxResults == 5

None == -1

ProfileUrls == 1..NumUrls
RowUrls == 0..NumUrls

\* "linkedin.com/in/" in url
IsProfileUrl(url) == url \in ProfileUrls

\* The percent-escape a URL carries ("" when it carries none): URLs 1, 4, 7, .. are
\* mis-decoded non-ASCII slugs, URLs 3, 6, .. hold an escaped space.
PctOf(url) ==
    IF url % 3 = 1 THEN "%C3%" ELSE IF url % 3 = 0 THEN "%20" ELSE ""

\* '%' in url and any(pattern in url for pattern in [...])
has_encoding_issue(url) ==
    PctOf(url) # "" /\ PctOf(url) \in {"%C3%", "%C2%", "%E2%", "%C4%", "%C5%"}

\* ------------------------------------------------------------------ buckets
\* A dict of {url: profile_data} in insertion order: a sequence of entries
\* [key, url, title, query]. title stands for the title and snippet of the
\* search row (the person the row names, written as the URL the row came
\* with), query for the query that found it (pass * 10 + index in the pass).
Keys(d) == {d[i].key : i \in DOMAIN d}

Entry(k, data) ==
    [key |-> k, url |-> data.url, title |-> data.title, snippet |-> data.snippet,
     query |-> data.query]

\* {"url": url, "title": ..., "snippet": ..., "query": query}
Profile(url, query) ==
    [key |-> url, url |-> url, title |-> url, snippet |-> url, query |-> query]

\* d[k] = data
Put(d, k, data) ==
    IF k \in Keys(d)
    THEN [i \in DOMAIN d |-> IF d[i].key = k THEN Entry(k, data) ELSE d[i]]
    ELSE Append(d, Entry(k, data))

Get(d, k) == d[CHOOSE i \in DOMAIN d : d[i].key = k]

\* What the search index holds for the queries of a pass, best match first:
\* the odd passes rank the URLs upwards from the non-profile page 0, the even
\* passes downwards from NumUrls, so that passes of one bucket and of both
\* buckets return the same URLs.
Ranking(pass) ==
    IF pass % 2 = 1 THEN [i \in 1..(NumUrls + 1) |-> i - 1]
    ELSE [i \in 1..NumUrls |-> NumUrls + 1 - i]

\* The answers to one keyword query: the first n rows of the ranking.
Rows(pass) == {SubSeq(Ranking(pass), 1, n) : n \in 0..MaxResults}

\* In place of a row: the loop body raised there (a search that raised has
\* no row before it, a result without a text as URL raises where it stands).
RowRaised == -1

QueryFailed == <<RowRaised>>

QueryOutcomes(pass) == Rows(pass) \cup {QueryFailed}

\* A loop that stores a profile again each time a query returns it.
RECURSIVE AddRowsLastWins(_, _, _, _)
AddRowsLastWins(profiles, rows, i, query) ==
    IF i > Len(rows) \/ rows[i] = RowRaised THEN profiles
    ELSE IF IsProfileUrl(rows[i])
         THEN AddRowsLastWins(Put(profiles, rows[i], Profile(rows[i], query)), rows, i + 1, query)
         ELSE AddRowsLastWins(profiles, rows, i + 1, query)

RECURSIVE AddRows(_, _, _, _)
AddRows(profiles, rows, i, query) ==
    IF i > Len(rows) \/ rows[i] = RowRaised THEN profiles
    ELSE LET url == rows[i] IN
         IF IsProfileUrl(url) /\ url \notin Keys(profiles)
         THEN AddRows(Put(profiles, url, Profile(url, query)), rows, i + 1, query)
         ELSE AddRows(profiles, rows, i + 1, query)

RECURSIVE TavilyFrom(_, _, _, _)
TavilyFrom(profiles, outcomes, i, pass) ==
    IF i > Len(outcomes) THEN profiles
    ELSE IF outcomes[i] = QueryFailed
         THEN TavilyFrom(profiles, outcomes, i + 1, pass)
         ELSE TavilyFrom(AddRows(profiles, outcomes[i], 1, pass * 10 + i),
                         outcomes, i + 1, pass)

_tavily_linkedin_search(outcomes, pass) == TavilyFrom(<<>>, outcomes, 1, pass)

\* The grounded call: it raised, it answered nothing, or it answered a text
\* whose lines carry the profile URLs urls, in order.
GroundedOutcomes(pass) ==
    {[kind |-> "exception", urls |-> <<>>], [kind |-> "empty", urls |-> <<>>]} \cup
    {[kind |-> "text", urls |-> SelectSeq(r, IsProfileUrl)] : r \in Rows(pass)}

_gemini_grounded_linkedin_search(g, pass) ==
    IF g.kind \in {"exception", "empty"} THEN <<>>
    ELSE AddRows(<<>>, g.urls, 1, pass * 10)

\* A merge that never looks at seen_urls.
RECURSIVE MergeAllFrom(_, _, _, _)
MergeAllFrom(bucket, new_profiles, seen, i) ==
    IF i > Len(new_profiles)
    THEN [bucket |-> bucket, seen_urls |-> seen, added |-> Len(new_profiles)]
    ELSE MergeAllFrom(Put(bucket, new_profiles[i].key, new_profiles[i]), new_profiles,
                      seen \cup {new_profiles[i].key}, i + 1)

merge_without_seen_check(bucket, new_profiles, seen) == MergeAllFrom(bucket, new_profiles, seen, 1)

RECURSIVE MergeFrom(_, _, _, _, _)
MergeFrom(bucket, new_profiles, seen, i, added) ==
    IF i > Len(new_profiles)
    THEN [bucket |-> bucket, seen_urls |-> seen, added |-> added]
    ELSE LET e == new_profiles[i] IN
         IF e.key \notin seen
         THEN MergeFrom(Put(bucket, e.key, e), new_profiles, seen \cup {e.key}, i + 1, added + 1)
         ELSE MergeFrom(bucket, new_profiles, seen, i + 1, added)

\* A merge that leaves seen_urls as it found it.
merge_forgetting_seen(bucket, new_profiles, seen) ==
    [MergeFrom(bucket, new_profiles, seen, 1, 0) EXCEPT !.seen_urls = seen]

\* A merge that counts every profile it was handed.
merge_counting_all(bucket, new_profiles, seen) ==
    [MergeFrom(bucket, new_profiles, seen, 1, 0) EXCEPT !.added = Len(new_profiles)]

_merge_into_bucket(bucket, new_profiles, seen) == MergeFrom(bucket, new_profiles, seen, 1, 0)

\* --------------------------------------------------------------------- text
\* A text is a sequence of characters; NoneText is Python's None where a text
\* is expected (no character is the string "None").
NoneText == <<"None">>

Whitespace == {" ", "\n"}

UpperCase == <<"A", "B", "C", "D", "E", "F", "G", "H", "I", "J", "K", "L", "M",
               "N", "O", "P", "Q", "R", "S", "T", "U", "V", "W", "X", "Y", "Z">>

LowerCase == <<"a", "b", "c", "d", "e", "f", "g", "h", "i", "j", "k", "l", "m",
               "n", "o", "p", "q", "r", "s", "t", "u", "v", "w", "x", "y", "z">>

SetMin(S) == CHOOSE x \in S : \A y \in S : x <= y

SetMax(S) == CHOOSE x \in S : \A y \in S : y <= x

\* str.lower()
lower(text) ==
    [i \in DOMAIN text |->
        IF \E n \in DOMAIN UpperCase : UpperCase[n] = text[i]
        THEN LowerCase[CHOOSE n \in DOMAIN UpperCase : UpperCase[n] = text[i]]
        ELSE text[i]]

\* str.strip()
strip(text) ==
    LET inked == {i \in DOMAIN text : text[i] \notin Whitespace} IN
    IF inked = {} THEN <<>> ELSE SubSeq(text, SetMin(inked), SetMax(inked))

\* sub in text
In(sub, text) ==
    \E i \in 0..(Len(text) - Len(sub)) : SubSeq(text, i + 1, i + Len(sub)) = sub

\* text.startswith(prefix)
startswith(text, prefix) ==
    Len(prefix) <= Len(text) /\ SubSeq(text, 1, Len(prefix)) = prefix

\* text.split('\n')
RECURSIVE SplitLinesFrom(_, _)
SplitLinesFrom(text, start) ==
    LET newlines == {k \in start..Len(text) : text[k] = "\n"} IN
    IF newlines = {} THEN <<SubSeq(text, start, Len(text))>>
    ELSE <<SubSeq(text, start, SetMin(newlines) - 1)>> \o
         SplitLinesFrom(text, SetMin(newlines) + 1)

split_lines(text) == SplitLinesFrom(text, 1)

\* Where the match of \n\s*\n that starts at i ends, 0 if none starts there:
\* \s* is greedy, so the match runs to the last newline of the whitespace
\* that follows i.
BlankMatchEnd(text, i) ==
    IF text[i] # "\n" THEN 0
    ELSE LET ends == {k \in (i + 1)..Len(text) :
                        /\ text[k] = "\n"
                        /\ \A m \in (i + 1)..(k - 1) : text[m] \in Whitespace} IN
         IF ends = {} THEN 0 ELSE SetMax(ends)

\* re.split(r'\n\s*\n', text)
RECURSIVE SplitBlocksFrom(_, _)
SplitBlocksFrom(text, start) ==
    LET matches == {k \in start..Len(text) : BlankMatchEnd(text, k) > 0} IN
    IF matches = {} THEN <<SubSeq(text, start, Len(text))>>
    ELSE <<SubSeq(text, start, SetMin(matches) - 1)>> \o
         SplitBlocksFrom(text, BlankMatchEnd(text, SetMin(matches)) + 1)

re_split_blocks(text) == SplitBlocksFrom(text, 1)

\* sep.join(parts)
RECURSIVE JoinFrom(_, _, _)
JoinFrom(sep, parts, i) ==
    IF i > Len(parts) THEN <<>>
    ELSE IF i = Len(parts) THEN parts[i]
    ELSE parts[i] \o sep \o JoinFrom(sep, parts, i + 1)

join(sep, parts) == JoinFrom(sep, parts, 1)

\* A loop body that looks at the name only.
keeps_by_name_only(block_stripped, champion_url, champion_lower) ==
    /\ block_stripped # <<>>
    /\ ~(In(champion_lower, lower(strip(split_lines(block_stripped)[1])))
         \/ In(lower(strip(split_lines(block_stripped)[1])), champion_lower))

\* Lines 462-463: the first line of the block, stripped and lowered, against
\* the lowered champion name, as a substring in either direction.
name_match(champion_lower, first_line) ==
    In(champion_lower, first_line) \/ In(first_line, champion_lower)

\* The body of the loop of deduplicate_champion_from_contacts: TRUE when the
\* block is appended to filtered.
keeps_block(block_stripped, champion_url, champion_lower) ==
    /\ block_stripped # <<>>
    /\ ~(champion_url # NoneText /\ champion_url # <<>> /\ In(champion_url, block_stripped))
    /\ ~name_match(champion_lower, lower(strip(split_lines(block_stripped)[1])))

deduplicate_champion_from_contacts(contacts_text, url, name) ==
    IF contacts_text = <<>> THEN contacts_text
    ELSE LET blocks == re_split_blocks(contacts_text)
             stripped == [i \in DOMAIN blocks |-> strip(blocks[i])]
             filtered == SelectSeq(stripped, LAMBDA b : keeps_block(b, url, lower(name)))
         IN join(<<"\n", "\n">>, filtered)

\* ----------------------------------------------------- literals of the code
\* CHAMPION
CHAMPION ==
    <<"C", "H", "A", "M", "P", "I", "O", "N">>

\* LinkedIn:
LinkedInLabel ==
    <<"L", "i", "n", "k", "e", "d", "I", "n", ":">>

\* Insight:
InsightLabel ==
    <<"I", "n", "s", "i", "g", "h", "t", ":">>

\* line 1786
InsightNote ==
    <<"\n", "I", "n", "s", "i", "g", "h", "t", ":", " ", "D", "e", "a", "l", " ", "c", "h",
      "a", "m", "p", "i", "o", "n", " ", "f", "o", "r", " ", "t", "h", "i", "s", " ", "o", "p",
      "p", "o", "r", "t", "u", "n", "i", "t", "y">>

\* line 1790
InsightPrefix ==
    <<"I", "n", "s", "i", "g", "h", "t", ":", " ", "D", "e", "a", "l", " ", "c", "h", "a", "m",
      "p", "i", "o", "n", " ", "f", "o", "r", " ", "t", "h", "i", "s", " ", "o", "p", "p", "o",
      "r", "t", "u", "n", "i", "t", "y", ".">>

\* lines 1799-1801: the placeholder after the champion name
PlaceholderTail ==
    <<"\n", "T", "i", "t", "l", "e", ":", " ", "V", "e", "r", "i", "f", "y", " ", "o", "n",
      " ", "p", "r", "o", "f", "i", "l", "e", "\n", "L", "i", "n", "k", "e", "d", "I", "n",
      ":", " ", "S", "e", "a", "r", "c", "h", " ", "m", "a", "n", "u", "a", "l", "l", "y",
      "\n", "I", "n", "s", "i", "g", "h", "t", ":", " ", "D", "e", "a", "l", " ", "c", "h",
      "a", "m", "p", "i", "o", "n", " ", "f", "o", "r", " ", "t", "h", "i", "s", " ", "o", "p",
      "p", "o", "r", "t", "u", "n", "i", "t", "y">>

\* Title: Verify on profile
PlaceholderTitle ==
    <<"T", "i", "t", "l", "e", ":", " ", "V", "e", "r", "i", "f", "y", " ", "o", "n", " ", "p",
      "r", "o", "f", "i", "l", "e">>

\* LinkedIn: Search manually
PlaceholderLink ==
    <<"L", "i", "n", "k", "e", "d", "I", "n", ":", " ", "S", "e", "a", "r", "c", "h", " ", "m",
      "a", "n", "u", "a", "l", "l", "y">>

\* line 1776
ContactsError ==
    <<"E", "r", "r", "o", "r", " ", "f", "i", "n", "d", "i", "n", "g", " ", "c", "o", "n", "t",
      "a", "c", "t", "s", ".", " ", "P", "l", "e", "a", "s", "e", " ", "a", "d", "d", " ", "m",
      "a", "n", "u", "a", "l", "l", "y", ".">>

\* http://
HttpScheme ==
    <<"h", "t", "t", "p", ":", "/", "/">>

\* https://
HttpsScheme ==
    <<"h", "t", "t", "p", "s", ":", "/", "/">>

\* linkedin.com/in/
ProfileHost ==
    <<"l", "i", "n", "k", "e", "d", "i", "n", ".", "c", "o", "m", "/", "i", "n", "/">>

\* www.
Www ==
    <<"w", "w", "w", ".">>

\* Line 944-947: the prefixes of a line that is not a contact's name.
FieldLabels ==
    {<<"T", "i", "t", "l", "e", ":">>, LinkedInLabel,
     <<"T", "e", "n", "u", "r", "e", ":">>,
     <<"L", "o", "c", "a", "t", "i", "o", "n", ":">>, InsightLabel, CHAMPION}

\* The grave accent, which a TLA+ string cannot hold.
Backtick == "grave"

\* Line 416: the prefixes of a line of markdown or preamble.
MarkdownPrefixes == {<<"#">>, <<"*">>, <<Backtick, Backtick, Backtick>>}

\* ---------------------------------------------------- champion and contacts
\* Where the run of characters outside `stop` that starts at i ends (i - 1
\* when text[i] is in `stop` or past the end).
RunEnd(text, i, stop) ==
    LET stops == {k \in i..Len(text) : text[k] \in stop} IN
    IF stops = {} THEN Len(text) ELSE SetMin(stops) - 1

\* The match of prefix[^stop]+ at position i of the text, <<>> if there is none.
MatchAt(text, i, prefix, stop) ==
    LET from == i + Len(prefix) IN
    IF /\ startswith(SubSeq(text, i, Len(text)), prefix)
       /\ RunEnd(text, from, stop) >= from
    THEN SubSeq(text, i, RunEnd(text, from, stop))
    ELSE <<>>

\* re.search of (one of the prefixes)[^stop]+ : the leftmost match, or NoneText.
re_search(text, prefixes, stop) ==
    LET hits == {i \in DOMAIN text : \E p \in prefixes : MatchAt(text, i, p, stop) # <<>>} IN
    IF hits = {} THEN NoneText
    ELSE LET i == SetMin(hits)
             p == CHOOSE q \in prefixes : MatchAt(text, i, q, stop) # <<>>
         IN MatchAt(text, i, p, stop)

\* Line 400: https?://(?:www\.)?linkedin\.com/in/[^\s,)]+
ProfileUrlPrefixes ==
    {HttpScheme \o ProfileHost, HttpsScheme \o ProfileHost,
     HttpScheme \o Www \o ProfileHost, HttpsScheme \o Www \o ProfileHost}

\* str.rstrip('.')
rstrip_dots(text) ==
    LET kept == {i \in DOMAIN text : text[i] # "."} IN
    IF kept = {} THEN <<>> ELSE SubSeq(text, 1, SetMax(kept))

\* text.replace(old, new)
RECURSIVE ReplaceFrom(_, _, _, _)
ReplaceFrom(text, old, new, start) ==
    LET hits == {k \in start..Len(text) : startswith(SubSeq(text, k, Len(text)), old)} IN
    IF hits = {} THEN SubSeq(text, start, Len(text))
    ELSE SubSeq(text, start, SetMin(hits) - 1) \o new \o
         ReplaceFrom(text, old, new, SetMin(hits) + Len(old))

replace(text, old, new) == ReplaceFrom(text, old, new, 1)

\* Lines 409-420: the response's lines stripped, without the empty ones and
\* those that start like markdown.
cleaned_lines(response) ==
    LET lines == split_lines(strip(response))
        stripped == [i \in DOMAIN lines |-> strip(lines[i])]
    IN SelectSeq(stripped,
                 LAMBDA l : l # <<>> /\ ~\E m \in MarkdownPrefixes : startswith(l, m))

\* _call_gemini_grounded raised (get_config or the key lookup of lines
\* 1179-1180, outside its try block).
CallRaised == <<"Exception">>

\* A resolution that returns the text also when it holds no URL.
champion_text_without_url(response) ==
    IF response \in {CallRaised, <<>>} THEN [text |-> NoneText, url |-> NoneText]
    ELSE [text |-> join(<<"\n">>, cleaned_lines(response)),
          url |-> LET url_match == re_search(response, ProfileUrlPrefixes,
                                             Whitespace \cup {",", ")"})
                  IN IF url_match = NoneText THEN NoneText ELSE rstrip_dots(url_match)]

\* search_champion_contact(champion_name, company_name), given what
\* _call_gemini_grounded did: it raised (caught at line 424), or returned a
\* text (<<>> when the request failed or found nothing).
search_champion_contact(response) ==
    IF response \in {CallRaised, <<>>} THEN [text |-> NoneText, url |-> NoneText]
    ELSE LET url_match == re_search(response, ProfileUrlPrefixes, Whitespace \cup {",", ")"}) IN
         IF url_match = NoneText THEN [text |-> NoneText, url |-> NoneText]
         ELSE [text |-> join(<<"\n">>, cleaned_lines(response)),
               url |-> rstrip_dots(url_match)]

\* Lines 1785-1791
with_champion_insight(text) ==
    IF ~In(InsightLabel, text) THEN text \o InsightNote
    ELSE replace(text, InsightLabel, InsightPrefix)

\* Lines 1797-1802
champion_placeholder(name) == name \o PlaceholderTail

\* The champion block is put where the contacts end.
append_champion(block, text) == text \o <<"\n", "\n">> \o CHAMPION \o <<"\n">> \o block

\* f"CHAMPION\n{block}\n\n{contacts}"
prepend_champion(block, text) == CHAMPION \o <<"\n">> \o block \o <<"\n", "\n">> \o text

\* Lines 939-950: the name the URL of line i is mapped to, NoneText if the
\* three lines before it hold none.
RECURSIVE LookBack(_, _, _)
LookBack(lines, i, j) ==
    IF j > 3 \/ i - j < 1 THEN NoneText
    ELSE LET potential_name == strip(lines[i - j]) IN
         IF potential_name # <<>> /\ ~\E l \in FieldLabels : startswith(potential_name, l)
         THEN potential_name
         ELSE LookBack(lines, i, j + 1)

\* Line 934: https?://[^\s]+ in the stripped line
LineUrl(line) == re_search(strip(line), {HttpScheme, HttpsScheme}, Whitespace)

\* A test that takes every line with the label for a link line.
AnyLabelledLine(line) == startswith(strip(line), LinkedInLabel)

\* Lines 929-936: the line goes and its URL is mapped.
IsLinkedinLine(line) == startswith(strip(line), LinkedInLabel) /\ LineUrl(line) # NoneText

RECURSIVE MappingsFrom(_, _, _)
MappingsFrom(lines, i, mappings) ==
    IF i > Len(lines) THEN mappings
    ELSE IF IsLinkedinLine(lines[i]) /\ LookBack(lines, i, 1) # NoneText
         THEN MappingsFrom(lines, i + 1,
                  [n \in DOMAIN mappings \cup {LookBack(lines, i, 1)} |->
                      IF n = LookBack(lines, i, 1) THEN LineUrl(lines[i]) ELSE mappings[n]])
         ELSE MappingsFrom(lines, i + 1, mappings)

extract_and_strip_linkedin_lines(contacts_text) ==
    IF contacts_text = <<>> THEN [text |-> contacts_text, url_mappings |-> <<>>]
    ELSE LET lines == split_lines(contacts_text) IN
         [text |-> join(<<"\n">>, SelectSeq(lines, LAMBDA l : ~IsLinkedinLine(l))),
          url_mappings |-> MappingsFrom(lines, 1, <<>>)]

\* -------------------------------------------------------------------- state
VARIABLES
    pc,                  \* position in search_linkedin_contacts_with_tavily
    tavily_configured,   \* TAVILY_AVAILABLE and config.get("tavily_api_key")
    marketing_profiles,
    leadership_profiles,
    seen_urls,
    validated_profiles,  \* the dict the running validation is building
    vidx,                \* position of the running validation in its input
    total,               \* line 716
    total_valid,         \* line 724
    result,              \* what the function returned
    raised,              \* an exception left the function
    formatter_called,    \* gateway.chat was called with the two-bucket prompt
    profiles_text,       \* the profile rows of the two-bucket prompt
    fallback_reason,     \* why search_linkedin_contacts_with_gemini was called
    pass_log,            \* the passes that executed, in order
    trigger_log,         \* the trigger evaluations: <<pass, size read, ran>>
    raw_sum,             \* sum of the sizes of the maps the passes returned
    returned_urls,       \* URLs some executed pass returned
    dup_returned,        \* some URL was returned by more than one pass
    not_found,           \* probes that answered 404 so far
    profiles,            \* validator on its own: the dict it was called on
    answers,             \* what its probes and repair searches answered, per entry
    revalidated,         \* the dict it returned
    runs,                \* how often it has run
    main_pc,             \* position in main's contacts section
    champion_name,       \* sys.argv[3], None when absent
    champion_text,       \* what search_champion_contact returned
    champion_url,
    aggregate,           \* the contacts text before the champion section
    contacts,            \* main's contacts
    url_mappings,        \* what extract_and_strip_linkedin_lines mapped
    grounded_response,   \* what _call_gemini_grounded answered the champion prompt with
    adapter_pc,          \* position in _tavily_linkedin_search run on its own
    query_outcomes,      \* what the keyword queries answer
    issued,              \* the queries issued, in order
    pass_profiles,       \* the map its adapter returned
    added                \* what _merge_into_bucket returned

vars == <<pc, tavily_configured, marketing_profiles, leadership_profiles, seen_urls,
          validated_profiles, vidx, total, total_valid, result, raised, formatter_called,
          profiles_text,
          fallback_reason, pass_log, trigger_log, raw_sum, returned_urls,
          dup_returned, not_found, profiles, answers, revalidated, runs,
          main_pc, champion_name, champion_text, champion_url, aggregate, contacts,
          url_mappings, grounded_response, adapter_pc,
          query_outcomes, issued, pass_profiles, added>>

search_vars == <<marketing_profiles, leadership_profiles, seen_urls>>
history_vars == <<pass_log, trigger_log, raw_sum, returned_urls, dup_returned>>
validation_vars == <<validated_profiles, vidx, not_found>>
return_vars == <<result, raised, formatter_called, fallback_reason>>
validator_vars == <<profiles, answers, revalidated, runs>>
\* What a call of search_linkedin_contacts_with_tavily leaves alone.
main_vars == <<main_pc, champion_name, champion_text, champion_url, aggregate, contacts,
               url_mappings, grounded_response>>
pass_vars == <<adapter_pc, query_outcomes, issued, pass_profiles, added>>
not_pipeline == <<validator_vars, main_vars, pass_vars>>
pipeline_vars == <<pc, tavily_configured, marketing_profiles, leadership_profiles,
                   seen_urls, validated_profiles, vidx, total, total_valid, result, raised,
                   formatter_called, profiles_text, fallback_reason, pass_log, trigger_log,
                   raw_sum,
                   returned_urls, dup_returned, not_found>>

NoResult == [from |-> "none", text |-> "none"]

\* No pass runs on its own.
PassIdle ==
    /\ adapter_pc = "idle"
    /\ query_outcomes = <<>>
    /\ issued = <<>>
    /\ pass_profiles = <<>>
    /\ added = 0

\* main's contacts section is not running.
MainIdle ==
    /\ main_pc = "idle"
    /\ champion_name = NoneText
    /\ champion_text = NoneText
    /\ champion_url = NoneText
    /\ aggregate = <<>>
    /\ contacts = <<>>
    /\ url_mappings = <<>>
    /\ grounded_response = <<>>

\* No validator runs on its own.
ValidatorIdle ==
    /\ profiles = <<>>
    /\ answers = <<>>
    /\ revalidated = <<>>
    /\ runs = 0

\* No call of search_linkedin_contacts_with_tavily is under way.
PipelineIdle ==
    /\ pc = "idle"
    /\ tavily_configured = FALSE
    /\ marketing_profiles = <<>>
    /\ leadership_profiles = <<>>
    /\ seen_urls = {}
    /\ validated_profiles = <<>>
    /\ vidx = 0
    /\ total = 0
    /\ total_valid = 0
    /\ result = [from |-> "none", text |-> "none"]
    /\ raised = FALSE
    /\ formatter_called = FALSE
    /\ profiles_text = <<>>
    /\ fallback_reason = "none"
    /\ pass_log = <<>>
    /\ trigger_log = <<>>
    /\ raw_sum = 0
    /\ returned_urls = {}
    /\ dup_returned = FALSE
    /\ not_found = 0

Init ==
    /\ ValidatorIdle
    /\ MainIdle
    /\ PassIdle
    /\ pc = "start"
    /\ tavily_configured \in BOOLEAN
    /\ marketing_profiles = <<>>
    /\ leadership_profiles = <<>>
    /\ seen_urls = {}
    /\ validated_profiles = <<>>
    /\ vidx = 0
    /\ total = 0
    /\ total_valid = 0
    /\ result = NoResult
    /\ raised = FALSE
    /\ formatter_called = FALSE
    /\ profiles_text = <<>>
    /\ fallback_reason = "none"
    /\ pass_log = <<>>
    /\ trigger_log = <<>>
    /\ raw_sum = 0
    /\ returned_urls = {}
    /\ dup_returned = FALSE
    /\ not_found = 0

\* search_linkedin_contacts_with_gemini: one grounded call; its text, or ""
\* when the call raised or answered nothing.
TextOutcomes == {"exception", "empty", "text"}

search_linkedin_contacts_with_gemini(g) ==
    [from |-> "fallback", text |-> IF g = "text" THEN "contacts" ELSE ""]

\* The dicts are locals of the call and end with it; total and total_valid
\* stay as the figures its log lines 717 and 725 printed.
Return ==
    /\ pc' = "done"
    /\ marketing_profiles' = <<>>
    /\ leadership_profiles' = <<>>
    /\ seen_urls' = {}

ReturnFallback(reason, g) ==
    /\ result' = search_linkedin_contacts_with_gemini(g)
    /\ fallback_reason' = reason
    /\ Return

\* An outer handler that misses the formatter call.
OuterExceptMissesFormatter(site) == site \in {"client"}

\* The handler an exception raised at a call site reaches: the except clause
\* of lines 818-821 for everything inside the try block of line 622.
OuterExceptCatches(site) == site \in {"client", "formatter"}

\* An exception at site: the fallback when the outer handler catches it.
Throw(site, g) ==
    IF OuterExceptCatches(site)
    THEN ReturnFallback("exception", g) /\ UNCHANGED raised
    ELSE raised' = TRUE /\ Return /\ UNCHANGED <<result, fallback_reason>>

\* lines 613-626
Start ==
    /\ pc = "start"
    /\ IF ~tavily_configured
       THEN \E g \in TextOutcomes : ReturnFallback("unavailable", g) /\ UNCHANGED raised
       ELSE \/ \E g \in TextOutcomes : Throw("client", g)
            \/ pc' = "pass1" /\ UNCHANGED <<search_vars, result, raised, fallback_reason>>
    /\ UNCHANGED <<not_pipeline, profiles_text, tavily_configured, validation_vars, total,
                   total_valid,
                   formatter_called, history_vars>>

\* One executed pass: the adapter's map merged into its bucket.
RunPass(pass, new_profiles, next) ==
    LET bucket == IF pass <= 3 THEN marketing_profiles ELSE leadership_profiles
        m == _merge_into_bucket(bucket, new_profiles, seen_urls)
    IN /\ marketing_profiles' = IF pass <= 3 THEN m.bucket ELSE marketing_profiles
       /\ leadership_profiles' = IF pass <= 3 THEN leadership_profiles ELSE m.bucket
       /\ seen_urls' = m.seen_urls
       /\ pass_log' = Append(pass_log, pass)
       /\ raw_sum' = raw_sum + Len(new_profiles)
       /\ returned_urls' = returned_urls \cup Keys(new_profiles)
       /\ dup_returned' = (dup_returned \/ Keys(new_profiles) \cap returned_urls # {})
       /\ pc' = next

TavilyPass(pass, here, next) ==
    /\ pc = here
    /\ \E outcomes \in [1..NumQueries -> QueryOutcomes(pass)] :
         RunPass(pass, _tavily_linkedin_search(outcomes, pass), next)
    /\ UNCHANGED trigger_log

\* A trigger that fires for an empty bucket only.
TriggerWhenEmpty(size) == size = 0

\* A trigger that still fires at the target size.
TriggerAtTarget(size) == size <= BucketTarget

\* if len(bucket) < 5
Trigger(size) == size < BucketTarget

\* The trigger of a grounded pass, read once: the pass runs, or is skipped.
ConditionalPass(pass, here, next) ==
    /\ pc = here
    /\ LET size == Len(IF pass <= 3 THEN marketing_profiles ELSE leadership_profiles) IN
       IF Trigger(size)
       THEN /\ \E g \in GroundedOutcomes(pass) :
                 RunPass(pass, _gemini_grounded_linkedin_search(g, pass), next)
            /\ trigger_log' = Append(trigger_log, <<pass, size, TRUE>>)
       ELSE /\ pc' = next
            /\ trigger_log' = Append(trigger_log, <<pass, size, FALSE>>)
            /\ UNCHANGED <<search_vars, pass_log, raw_sum, returned_urls, dup_returned>>

Pass1 ==
    /\ TavilyPass(1, "pass1", "pass2")
    /\ UNCHANGED <<not_pipeline, profiles_text, tavily_configured, validation_vars, total,
                   total_valid, return_vars>>

Pass2 ==
    /\ TavilyPass(2, "pass2", "pass3")
    /\ UNCHANGED <<not_pipeline, profiles_text, tavily_configured, validation_vars, total,
                   total_valid, return_vars>>

Pass3 ==
    /\ ConditionalPass(3, "pass3", "pass4")
    /\ UNCHANGED <<not_pipeline, profiles_text, tavily_configured, validation_vars, total,
                   total_valid, return_vars>>

Pass4 ==
    /\ TavilyPass(4, "pass4", "pass5")
    /\ UNCHANGED <<not_pipeline, profiles_text, tavily_configured, validation_vars, total,
                   total_valid, return_vars>>

\* Pass 6 issued where pass 5 belongs.
Pass6InPlaceOf5 ==
    /\ ConditionalPass(6, "pass5", "pass6")
    /\ UNCHANGED <<not_pipeline, profiles_text, tavily_configured, validation_vars, total,
                   total_valid, return_vars>>

Pass5 ==
    /\ ConditionalPass(5, "pass5", "pass6")
    /\ UNCHANGED <<not_pipeline, profiles_text, tavily_configured, validation_vars, total,
                   total_valid, return_vars>>

\* A pass 6 that runs whatever the bucket holds.
Pass6Unconditional ==
    /\ pc = "pass6"
    /\ \E g \in GroundedOutcomes(6) :
         RunPass(6, _gemini_grounded_linkedin_search(g, 6), "validate_marketing")
    /\ trigger_log' = Append(trigger_log, <<6, Len(leadership_profiles), TRUE>>)
    /\ total' = Len(marketing_profiles') + Len(leadership_profiles')
    /\ validated_profiles' = <<>>
    /\ vidx' = 1
    /\ UNCHANGED <<not_pipeline, profiles_text, tavily_configured, not_found, total_valid,
                   return_vars>>

\* Pass 6, then total (line 716) and the entry into the first validation.
Pass6 ==
    /\ ConditionalPass(6, "pass6", "validate_marketing")
    /\ total' = Len(marketing_profiles') + Len(leadership_profiles')
    /\ validated_profiles' = <<>>
    /\ vidx' = 1
    /\ UNCHANGED <<not_pipeline, profiles_text, tavily_configured, not_found, total_valid,
                   return_vars>>

\* ------------------------------------------------------------- validation
\* The answers of the liveness probe: a status code, or a connection error.
RequestException == -1

ProbeOutcomes == {200, 404, 999, 403, 500, RequestException}

\* find_linkedin_url_via_google: a URL holding "linkedin.com/in/", or None
\* (no usable name in the title, the search failed, no such anchor).
RepairOutcomes == {None} \cup (1..MaxRepairUrl)

\* A repair that stores the profile under the key it had.
RepairedUnderOldKey(validated, e, fixed_url) ==
    [validated |-> Put(validated, e.key, [e EXCEPT !.url = fixed_url]),
     data |-> [e EXCEPT !.url = fixed_url], not_found |-> 0]

\* A keep that stores nothing.
KeptNowhere(validated, e) ==
    [validated |-> validated, data |-> e, not_found |-> 0]

\* A 404 without a repair that stores the profile all the same.
StoredAfterNotFound(validated, e) ==
    [validated |-> Put(validated, e.key, e), data |-> e, not_found |-> 0]

\* A repair that stores the profile under the URL found and leaves its url field.
RepairedKeyOnly(validated, e, fixed_url) ==
    [validated |-> Put(validated, fixed_url, e), data |-> e, not_found |-> 0]

\* A repair that also takes the title of the page it found.
RepairedWithTitle(validated, e, fixed_url) ==
    [validated |-> Put(validated, fixed_url, [e EXCEPT !.url = fixed_url, !.title = fixed_url]),
     data |-> [e EXCEPT !.url = fixed_url, !.title = fixed_url], not_found |-> 0]

\* One iteration of the loop of validate_and_fix_linkedin_urls over the
\* bucket being validated: the new validated_profiles and the entry's data.
Repaired(validated, e, fixed_url) ==
    [validated |-> Put(validated, fixed_url, [e EXCEPT !.url = fixed_url]),
     data |-> [e EXCEPT !.url = fixed_url], not_found |-> 0]

Kept(validated, e) ==
    [validated |-> Put(validated, e.key, e), data |-> e, not_found |-> 0]

Removed(validated, e) ==
    [validated |-> validated, data |-> e, not_found |-> 0]

\* An iteration that drops the profile when the probe is answered 999 or 403.
ValidateOneDropsBlocked(validated, e, probe, fixed_url) ==
    IF ~has_encoding_issue(e.key) /\ probe \in {999, 403}
    THEN [validated |-> validated, data |-> e, not_found |-> 0]
    ELSE IF has_encoding_issue(e.key) \/ probe # 404
         THEN [validated |-> Put(validated, e.key, e), data |-> e, not_found |-> 0]
         ELSE IF fixed_url # None /\ fixed_url # e.key
              THEN [validated |-> Put(validated, fixed_url, [e EXCEPT !.url = fixed_url]),
                    data |-> [e EXCEPT !.url = fixed_url], not_found |-> 1]
              ELSE [validated |-> validated, data |-> e, not_found |-> 1]

\* An iteration that keeps a flagged URL only when the repair search found one.
ValidateOneDropsFlagged(validated, e, probe, fixed_url) ==
    IF has_encoding_issue(e.key)
    THEN IF fixed_url # None
         THEN [validated |-> Put(validated, fixed_url, [e EXCEPT !.url = fixed_url]),
               data |-> [e EXCEPT !.url = fixed_url], not_found |-> 0]
         ELSE [validated |-> validated, data |-> e, not_found |-> 0]
    ELSE IF probe # 404
         THEN [validated |-> Put(validated, e.key, e), data |-> e, not_found |-> 0]
         ELSE IF fixed_url # None /\ fixed_url # e.key
              THEN [validated |-> Put(validated, fixed_url, [e EXCEPT !.url = fixed_url]),
                    data |-> [e EXCEPT !.url = fixed_url], not_found |-> 1]
              ELSE [validated |-> validated, data |-> e, not_found |-> 1]

ValidateOne(validated, e, probe, fixed_url) ==
    LET url == e.key IN
    IF has_encoding_issue(url)
    THEN IF fixed_url # None /\ fixed_url # url
         THEN Repaired(validated, e, fixed_url)
         ELSE Kept(validated, e)
    ELSE IF probe = 200 THEN Kept(validated, e)
    ELSE IF probe = 404
         THEN IF fixed_url # None /\ fixed_url # url
              THEN [Repaired(validated, e, fixed_url) EXCEPT !.not_found = 1]
              ELSE [Removed(validated, e) EXCEPT !.not_found = 1]
    ELSE IF probe \in {999, 403} THEN Kept(validated, e)
    ELSE Kept(validated, e)

\* The answers the step on entry e can get: no probe is sent for a flagged
\* URL, and the repair search runs only for a flagged URL or after a 404.
StepOutcomes(e, repairs) ==
    IF has_encoding_issue(e.key)
    THEN {[probe |-> None, fixed_url |-> f] : f \in repairs}
    ELSE {[probe |-> p, fixed_url |-> None] : p \in ProbeOutcomes \ {404}} \cup
         {[probe |-> 404, fixed_url |-> f] : f \in repairs}

\* validate_and_fix_linkedin_urls(profiles, company_name) with the answers
\* its probes and repair searches get, one per entry.
RECURSIVE ValidateFrom(_, _, _, _)
ValidateFrom(validated, input, outcomes, i) ==
    IF i > Len(input) THEN validated
    ELSE ValidateFrom(
            ValidateOne(validated, input[i], outcomes[i].probe, outcomes[i].fixed_url).validated,
            input, outcomes, i + 1)

validate_and_fix_linkedin_urls(input, outcomes) == ValidateFrom(<<>>, input, outcomes, 1)

ValidateProfile(here, bucket) ==
    /\ pc = here
    /\ vidx <= Len(bucket)
    /\ \E o \in StepOutcomes(bucket[vidx], RepairOutcomes) :
         LET v == ValidateOne(validated_profiles, bucket[vidx], o.probe, o.fixed_url) IN
         /\ not_found + v.not_found <= MaxNotFound
         /\ validated_profiles' = v.validated
         /\ not_found' = not_found + v.not_found
         /\ IF here = "validate_marketing"
            THEN /\ marketing_profiles' = [marketing_profiles EXCEPT ![vidx] = v.data]
                 /\ UNCHANGED leadership_profiles
            ELSE /\ leadership_profiles' = [leadership_profiles EXCEPT ![vidx] = v.data]
                 /\ UNCHANGED marketing_profiles
    /\ vidx' = vidx + 1
    /\ UNCHANGED <<not_pipeline, profiles_text, pc, tavily_configured, seen_urls, total,
                   total_valid, return_vars,
                   history_vars>>

ValidateMarketingProfile == ValidateProfile("validate_marketing", marketing_profiles)

ValidateLeadershipProfile == ValidateProfile("validate_leadership", leadership_profiles)

\* line 721: marketing_profiles = validate_and_fix_linkedin_urls(...)
ValidateMarketingReturn ==
    /\ pc = "validate_marketing"
    /\ vidx > Len(marketing_profiles)
    /\ marketing_profiles' = validated_profiles
    /\ validated_profiles' = <<>>
    /\ vidx' = 1
    /\ pc' = "validate_leadership"
    /\ UNCHANGED <<not_pipeline, profiles_text, tavily_configured, leadership_profiles,
                   seen_urls, not_found, total,
                   total_valid, return_vars, history_vars>>

\* lines 722-726: leadership_profiles = validate_and_fix_linkedin_urls(...),
\* then total_valid
ValidateLeadershipReturn ==
    /\ pc = "validate_leadership"
    /\ vidx > Len(leadership_profiles)
    /\ leadership_profiles' = validated_profiles
    /\ validated_profiles' = <<>>
    /\ vidx' = 0
    /\ total_valid' = Len(marketing_profiles) + Len(validated_profiles)
    /\ pc' = "check_total"
    /\ UNCHANGED <<not_pipeline, profiles_text, tavily_configured, marketing_profiles,
                   seen_urls, not_found, total,
                   return_vars, history_vars>>

\* A fallback test that still fires with exactly three profiles.
TooFewAtThree(n) == n <= MinValidProfiles

\* if total_valid < 3
TooFew(n) == n < MinValidProfiles

\* A fallback taken whatever the total is.
FallbackWhateverTotal ==
    /\ pc = "check_total"
    /\ \E g \in TextOutcomes : ReturnFallback("too_few", g)
    /\ UNCHANGED <<not_pipeline, profiles_text, tavily_configured, validation_vars, total,
                   total_valid, raised,
                   formatter_called, history_vars>>

\* lines 728-731
FallbackTooFew ==
    /\ pc = "check_total"
    /\ TooFew(total_valid)
    /\ \E g \in TextOutcomes : ReturnFallback("too_few", g)
    /\ UNCHANGED <<not_pipeline, profiles_text, tavily_configured, validation_vars, total,
                   total_valid, raised,
                   formatter_called, history_vars>>

\* A prompt that lists all the entries of both buckets.
profiles_text_uncapped(marketing, leadership) ==
    LET rows(bucket, tag) ==
            [i \in 1..Len(bucket) |->
                [bucket |-> tag, url |-> bucket[i].url, title |-> bucket[i].title,
                 snippet |-> bucket[i].snippet, query |-> bucket[i].query]]
    IN rows(marketing, "MARKETING") \o rows(leadership, "LEADERSHIP")

\* Lines 735-754: profiles_text, one row per listed profile: the rows of
\* list(marketing_profiles.items())[:15] under the MARKETING tag, then those
\* of list(leadership_profiles.items())[:10] under the LEADERSHIP tag.
build_profiles_text(marketing, leadership) ==
    LET rows(bucket, cap, tag) ==
            [i \in 1..(IF Len(bucket) < cap THEN Len(bucket) ELSE cap) |->
                [bucket |-> tag, url |-> bucket[i].url, title |-> bucket[i].title,
                 snippet |-> bucket[i].snippet, query |-> bucket[i].query]]
    IN rows(marketing, MarketingCap, "MARKETING")
        \o rows(leadership, LeadershipCap, "LEADERSHIP")

\* lines 733-821: the two-bucket prompt goes to the formatter; its text is
\* returned, and an exception of the call lands in the outer handler.
Format ==
    /\ pc = "check_total"
    /\ ~TooFew(total_valid)
    /\ profiles_text' = build_profiles_text(marketing_profiles, leadership_profiles)
    /\ formatter_called' = TRUE
    /\ \/ \E g \in TextOutcomes : Throw("formatter", g)
       \/ \E f \in {"empty", "text"} :
            /\ result' = [from |-> "formatter", text |-> IF f = "text" THEN "contacts" ELSE ""]
            /\ Return
            /\ UNCHANGED <<raised, fallback_reason>>
    /\ UNCHANGED <<not_pipeline, tavily_configured, validation_vars, total, total_valid, history_vars>>

Next ==
    \/ Start \/ Pass1 \/ Pass2 \/ Pass3 \/ Pass4 \/ Pass5 \/ Pass6
    \/ ValidateMarketingProfile \/ ValidateMarketingReturn
    \/ ValidateLeadershipProfile \/ ValidateLeadershipReturn
    \/ FallbackTooFew \/ Format

Spec == Init /\ [][Next]_vars

\* ------------------------------------------------- the validator on its own
ValidatorUrls == 1..NumValidatorUrls

\* The dicts a merge can have built: distinct URLs, each entry under its URL.
Distinct(seq) == \A i, j \in DOMAIN seq : i # j => seq[i] # seq[j]

InputDicts ==
    {[i \in DOMAIN urls |-> Profile(urls[i], 10)] :
        urls \in {u \in UNION {[1..n -> ValidatorUrls] : n \in 0..MaxProfiles} : Distinct(u)}}

\* One answer per entry of the dict.
AnswerSeqs(input) ==
    {a \in [DOMAIN input -> [probe : ProbeOutcomes \cup {None},
                             fixed_url : {None} \cup ValidatorUrls]] :
        \A i \in DOMAIN input :
            a[i] \in StepOutcomes(input[i], {None} \cup ValidatorUrls)}

InitValidator ==
    /\ PipelineIdle
    /\ MainIdle
    /\ PassIdle
    /\ profiles \in InputDicts
    /\ answers = <<>>
    /\ revalidated = <<>>
    /\ runs = 0

\* The validator runs: the first time on the dict, then on what it returned.
Revalidate ==
    /\ runs < MaxRuns
    /\ LET input == IF runs = 0 THEN profiles ELSE revalidated IN
       /\ profiles' = input
       /\ \E a \in AnswerSeqs(input) :
            /\ answers' = a
            /\ revalidated' = validate_and_fix_linkedin_urls(input, a)
    /\ runs' = runs + 1
    /\ UNCHANGED <<pipeline_vars, main_vars, pass_vars>>

NextValidator == Revalidate

SpecValidator == InitValidator /\ [][NextValidator]_vars

\* ------------------------------------------------------ the merge on its own
\* The maps an adapter can return: distinct profile URLs, each entry carrying
\* the query of the pass that found it.
PassMaps(pass) ==
    {[i \in DOMAIN urls |-> Profile(urls[i], pass * 10)] :
        urls \in {u \in UNION {[1..n -> 1..NumMergeUrls] : n \in 0..MaxMergeProfiles} :
                     Distinct(u)}}

LastPass == IF pass_log = <<>> THEN 0 ELSE pass_log[Len(pass_log)]

InitMerge ==
    /\ PipelineIdle
    /\ ValidatorIdle
    /\ MainIdle
    /\ PassIdle

\* added = _merge_into_bucket(bucket, passN_profiles, seen_urls), for the
\* passes in the order the code runs them
MergePass ==
    /\ Len(pass_log) < MaxMerges
    /\ \E pass \in (LastPass + 1)..6 : \E new \in PassMaps(pass) :
         /\ RunPass(pass, new, "idle")
         /\ pass_profiles' = new
         /\ added' = _merge_into_bucket(
                         IF pass <= 3 THEN marketing_profiles ELSE leadership_profiles,
                         new, seen_urls).added
    /\ UNCHANGED <<validator_vars, main_vars, adapter_pc, query_outcomes, issued,
                   tavily_configured, profiles_text,
                   validation_vars, total, total_valid, return_vars, trigger_log>>

NextMerge == MergePass

SpecMerge == InitMerge /\ [][NextMerge]_vars

\* -------------------------------------------- the keyword adapter on its own
\* What one query answers: up to MaxAdapterRows results, of profiles or of
\* the page 0, in full or up to the point where the loop body raised.
AdapterRows == UNION {[1..n -> 0..NumAdapterUrls] : n \in 0..MaxAdapterRows}

AdapterOutcomes == AdapterRows \cup {Append(r, RowRaised) : r \in AdapterRows}

Succeeded(outcome) == \A i \in DOMAIN outcome : outcome[i] # RowRaised

InitAdapter ==
    /\ PipelineIdle
    /\ ValidatorIdle
    /\ MainIdle
    /\ adapter_pc = "loop"
    /\ query_outcomes \in [1..NumAdapterQueries -> AdapterOutcomes]
    /\ issued = <<>>
    /\ pass_profiles = <<>>
    /\ added = 0

adapter_frame == <<pipeline_vars, validator_vars, main_vars, query_outcomes, added>>

\* A loop that ends with the first query that raised.
SearchQueryAborting ==
    /\ adapter_pc = "loop"
    /\ Len(issued) < Len(query_outcomes)
    /\ LET i == Len(issued) + 1 IN
       /\ issued' = Append(issued, i)
       /\ pass_profiles' = AddRows(pass_profiles, query_outcomes[i], 1, 10 + i)
       /\ adapter_pc' = IF Succeeded(query_outcomes[i]) THEN "loop" ELSE "returned"
    /\ UNCHANGED adapter_frame

\* One turn of the loop of lines 485-511: the query is issued, its results
\* are stored up to the end or to where the body raised, and the loop goes on.
SearchQuery ==
    /\ adapter_pc = "loop"
    /\ Len(issued) < Len(query_outcomes)
    /\ LET i == Len(issued) + 1 IN
       /\ issued' = Append(issued, i)
       /\ pass_profiles' = AddRows(pass_profiles, query_outcomes[i], 1, 10 + i)
    /\ UNCHANGED <<adapter_frame, adapter_pc>>

\* return profiles
ReturnProfiles ==
    /\ adapter_pc = "loop"
    /\ Len(issued) = Len(query_outcomes)
    /\ adapter_pc' = "returned"
    /\ UNCHANGED <<adapter_frame, issued, pass_profiles>>

NextAdapter == SearchQuery \/ ReturnProfiles

SpecAdapter == InitAdapter /\ [][NextAdapter]_vars

\* ------------------------------------------------- the prompt on its own
\* Line 724 reached with validated buckets that lost no entry. A bucket holds
\* its entries in the order the first and then the second pass of the bucket
\* inserted them, which is not the order of their URLs.
InitFormat ==
    LET FormatBucket(n, base, step, bound) ==
            [i \in 1..n |->
                Profile(base + ((i * step) % (bound + 1)) + 1,
                        IF 2 * i <= n THEN base \div 10 + 11 ELSE base \div 10 + 21)]
    IN
    /\ ValidatorIdle
    /\ MainIdle
    /\ PassIdle
    /\ pc = "check_total"
    /\ tavily_configured = TRUE
    /\ \E m \in 0..MaxFormatMarketing : \E l \in 0..MaxFormatLeadership :
         /\ marketing_profiles = FormatBucket(m, 0, 7, MaxFormatMarketing)
         /\ leadership_profiles = FormatBucket(l, 300, 5, MaxFormatLeadership)
         /\ total = m + l
         /\ total_valid = m + l
    /\ seen_urls = Keys(marketing_profiles) \cup Keys(leadership_profiles)
    /\ validated_profiles = <<>>
    /\ vidx = 0
    /\ result = NoResult
    /\ raised = FALSE
    /\ formatter_called = FALSE
    /\ profiles_text = <<>>
    /\ fallback_reason = "none"
    /\ pass_log = <<>>
    /\ trigger_log = <<>>
    /\ raw_sum = 0
    /\ returned_urls = {}
    /\ dup_returned = FALSE
    /\ not_found = 0

\* lines 729-821: the fallback below three valid profiles, else the formatter
SpecFormat == InitFormat /\ [][FallbackTooFew \/ Format]_vars

\* ------------------------------------------------------------------ properties
Elems(s) == {s[i] : i \in DOMAIN s}

\* The passes are over and the two validations have not replaced the buckets.
AfterLastPass == pc = "validate_marketing"

\* The function returned after running the passes and both validations.
ReturnedAfterValidation == pc = "done" /\ pass_log # <<>>

\* C1: at every point of a run - after each pass and after validation and
\* repair have been applied to both buckets - no URL is a key of both the
\* MARKETING and the LEADERSHIP bucket.
C1_NoUrlInBothBuckets ==
    pc \in {"pass1", "pass2", "pass3", "pass4", "pass5", "pass6",
            "validate_marketing", "check_total"}
        => Keys(marketing_profiles) \cap Keys(leadership_profiles) = {}

\* C2: total_valid is the number of profiles the two validated buckets hold;
\* when it is below 3 the function returns the output of the broad grounded
\* search and the two-bucket formatter is never called, and with 3 or more
\* the fallback is not taken for having too few profiles.
C2_FallbackBelowThree ==
    /\ pc = "check_total"
         => total_valid = Len(marketing_profiles) + Len(leadership_profiles)
    /\ ReturnedAfterValidation =>
         IF total_valid < 3
         THEN result.from = "fallback" /\ ~formatter_called /\ fallback_reason = "too_few"
         ELSE fallback_reason # "too_few" /\ formatter_called

\* A run that found three profiles, lost one to a 404 and fell back.
C2_Witness ==
    /\ ReturnedAfterValidation
    /\ total = 3 /\ total_valid = 2
    /\ result.from = "fallback" /\ fallback_reason = "too_few"

BucketOf(pass) == IF pass <= 3 THEN marketing_profiles ELSE leadership_profiles

PcOf(pass) == <<"pass1", "pass2", "pass3", "pass4", "pass5", "pass6">>[pass]

\* C3: a conditional pass (3, 5, 6) whose bucket holds 5 or more entries when
\* its trigger is read does not execute: no request is issued, nothing is
\* merged, and the scheduler moves on.
C3_NoPassAtTarget ==
    [][\A pass \in {3, 5, 6} :
          (pc = PcOf(pass) /\ Len(BucketOf(pass)) >= 5)
              => /\ pass_log' = pass_log
                 /\ raw_sum' = raw_sum
                 /\ marketing_profiles' = marketing_profiles
                 /\ leadership_profiles' = leadership_profiles
                 /\ seen_urls' = seen_urls
                 /\ pc' # pc]_vars

\* Six marketing profiles after passes 1 and 2: pass 3 was skipped.
C3_Witness ==
    /\ pc = "pass4"
    /\ Len(marketing_profiles) = 6
    /\ pass_log = <<1, 2>>

\* C4: after the last pass the two bucket sizes add up to at most the sum
\* of the sizes of the maps the executed passes returned, and to exactly
\* that sum only when no URL was returned by more than one pass.
C4_TotalAtMostRawSum ==
    /\ AfterLastPass => total = Len(marketing_profiles) + Len(leadership_profiles)
    /\ (AfterLastPass \/ pc \in {"validate_leadership", "check_total"} \/ ReturnedAfterValidation)
         => /\ total <= raw_sum
            /\ total = raw_sum => ~dup_returned

\* A run in which passes of both buckets returned a URL twice.
C4_Witness ==
    /\ AfterLastPass
    /\ marketing_profiles # <<>> /\ leadership_profiles # <<>>
    /\ dup_returned /\ total < raw_sum

PcRank ==
    [p \in {"start", "pass1", "pass2", "pass3", "pass4", "pass5", "pass6",
            "validate_marketing", "validate_leadership", "check_total", "done"} |->
        CASE p = "start" -> 0 [] p = "pass1" -> 1 [] p = "pass2" -> 2
          [] p = "pass3" -> 3 [] p = "pass4" -> 4 [] p = "pass5" -> 5
          [] p = "pass6" -> 6 [] OTHER -> 7]

\* What is left of the call: the positions ahead, and within a validation
\* the entries still to check.
Remaining ==
    CASE pc = "done" -> 0
      [] pc = "check_total" -> 1
      [] pc = "validate_leadership" -> 2 + (Len(leadership_profiles) + 1 - vidx)
      [] pc = "validate_marketing" ->
            3 + (Len(marketing_profiles) + 1 - vidx) + Len(leadership_profiles) + 1
      [] OTHER -> 4 + 2 * NumUrls + 2 + (7 - PcRank[pc])

\* ------------------------------------------- the contacts section of main
\* sys.argv[3]: absent, or a name with a character that is not whitespace.
ArgvNames == {NoneText, <<"a">>, <<"A", " ", "b">>, <<"b", " ">>}

\* Contact blocks in the format the formatter is asked for (lines 786-793).
BlockAb ==
    <<"A", " ", "b", "\n", "T", "i", "t", "l", "e", ":", " ", "V", "e", "r", "i", "f", "y",
      " ", "o", "n", " ", "p", "r", "o", "f", "i", "l", "e", "\n", "L", "i", "n", "k", "e",
      "d", "I", "n", ":", " ", "h", "t", "t", "p", "s", ":", "/", "/", "l", "i", "n", "k", "e",
      "d", "i", "n", ".", "c", "o", "m", "/", "i", "n", "/", "a", "b", "\n", "I", "n", "s",
      "i", "g", "h", "t", ":", " ", "c">>

\* A block without an insight line.
BlockC ==
    <<"c", "\n", "T", "i", "t", "l", "e", ":", " ", "d", "\n", "L", "i", "n", "k", "e", "d",
      "I", "n", ":", " ", "h", "t", "t", "p", "s", ":", "/", "/", "w", "w", "w", ".", "l", "i",
      "n", "k", "e", "d", "i", "n", ".", "c", "o", "m", "/", "i", "n", "/", "c">>

\* A block whose name line ends in a blank.
BlockAbTrailing ==
    <<"a", "b", " ", "\n", "T", "i", "t", "l", "e", ":", " ", "d">>

\* The divider between the two sections (line 774).
Divider ==
    <<"-", "-", "-", " ", "L", "E", "A", "D", "E", "R", "S", "H", "I", "P", " ", "-", "-", "-">>

ContactBlocks == {BlockAb, BlockC, BlockAbTrailing, Divider}

\* What search_linkedin_contacts_with_tavily can return: nothing, or up to
\* MaxBlocks blocks with a blank line between them.
PipelineTexts ==
    {join(<<"\n", "\n">>, blocks) :
        blocks \in UNION {[1..n -> ContactBlocks] : n \in 0..MaxBlocks}}

\* What _call_gemini_grounded can answer the champion prompt with: a profile.
ResponseA ==
    <<"a", "\n", "T", "i", "t", "l", "e", ":", " ", "d", "\n", "L", "i", "n", "k", "e", "d",
      "I", "n", ":", " ", "h", "t", "t", "p", "s", ":", "/", "/", "l", "i", "n", "k", "e", "d",
      "i", "n", ".", "c", "o", "m", "/", "i", "n", "/", "a", ".">>

\* A profile with markdown, a blank line and an insight.
ResponseAb ==
    <<"#", " ", "x", "\n", "\n", "A", " ", "b", "\n", "L", "i", "n", "k", "e", "d", "I", "n",
      ":", " ", "h", "t", "t", "p", "s", ":", "/", "/", "w", "w", "w", ".", "l", "i", "n", "k",
      "e", "d", "i", "n", ".", "c", "o", "m", "/", "i", "n", "/", "a", "b", ",", " ", "\n",
      "I", "n", "s", "i", "g", "h", "t", ":", " ", "c">>

\* No URL.
ResponseNoProfile ==
    <<"N", "o", " ", "p", "r", "o", "f", "i", "l", "e", " ", "f", "o", "u", "n", "d", " ", "f",
      "o", "r", " ", "a">>

\* A profile path without a scheme.
ResponseNoScheme ==
    <<"a", "\n", "L", "i", "n", "k", "e", "d", "I", "n", ":", " ", "l", "i", "n", "k", "e",
      "d", "i", "n", ".", "c", "o", "m", "/", "i", "n", "/", "a">>

\* A URL in a markdown bullet and nothing else.
ResponseBullet ==
    <<"*", " ", "h", "t", "t", "p", "s", ":", "/", "/", "l", "i", "n", "k", "e", "d", "i", "n",
      ".", "c", "o", "m", "/", "i", "n", "/", "a">>

\* Two profiles, the second one first in the alphabet.
ResponseTwo ==
    <<"b", "\n", "L", "i", "n", "k", "e", "d", "I", "n", ":", " ", "h", "t", "t", "p", ":",
      "/", "/", "w", "w", "w", ".", "l", "i", "n", "k", "e", "d", "i", "n", ".", "c", "o", "m",
      "/", "i", "n", "/", "b", ")", " ", "o", "r", " ", "h", "t", "t", "p", "s", ":", "/", "/",
      "l", "i", "n", "k", "e", "d", "i", "n", ".", "c", "o", "m", "/", "i", "n", "/", "a">>

\* <<>> is the answer of a call that failed or found nothing (lines 1203-1206).
GroundedResponses ==
    {CallRaised, <<>>, ResponseA, ResponseAb, ResponseNoProfile, ResponseNoScheme,
     ResponseBullet, ResponseTwo}

InitMain ==
    /\ PipelineIdle
    /\ ValidatorIdle
    /\ PassIdle
    /\ main_pc = "contacts"
    /\ champion_name \in ArgvNames
    /\ champion_text = NoneText
    /\ champion_url = NoneText
    /\ aggregate = <<>>
    /\ contacts = <<>>
    /\ url_mappings = <<>>
    /\ grounded_response = <<>>

main_frame == <<pipeline_vars, validator_vars, pass_vars>>

\* Lines 1774-1776
SearchContacts ==
    /\ main_pc = "contacts"
    /\ \E text \in PipelineTexts :
         /\ contacts' = IF text = <<>> THEN ContactsError ELSE text
         /\ aggregate' = contacts'
    /\ main_pc' = "champion"
    /\ UNCHANGED <<main_frame, champion_name, champion_text, champion_url, url_mappings,
                   grounded_response>>

\* Line 1781, no champion name
NoChampion ==
    /\ main_pc = "champion"
    /\ champion_name \in {NoneText, <<>>}
    /\ main_pc' = "strip"
    /\ UNCHANGED <<main_frame, champion_name, champion_text, champion_url, aggregate,
                   contacts, url_mappings, grounded_response>>

\* if champion_text: (line 1783)
Resolved == champion_text \notin {NoneText, <<>>}

\* Line 1782: champion_text, champion_url = search_champion_contact(...)
SearchChampion ==
    /\ main_pc = "champion"
    /\ champion_name \notin {NoneText, <<>>}
    /\ \E response \in GroundedResponses :
         /\ grounded_response' = response
         /\ champion_text' = search_champion_contact(response).text
         /\ champion_url' = search_champion_contact(response).url
    /\ main_pc' = "dedup_contacts"
    /\ UNCHANGED <<main_frame, champion_name, aggregate, contacts, url_mappings>>

\* The dedup skipped.
DedupSkipped(text, url, name) == text

\* The call of lines 1792 and 1796.
DedupCall(text, url, name) == deduplicate_champion_from_contacts(text, url, name)

\* Lines 1783-1792 and 1794-1796: the insight note goes into a resolved
\* champion's text, and the champion is taken out of the contacts, by URL and
\* name when resolved and by name alone when not.
DedupContacts ==
    /\ main_pc = "dedup_contacts"
    /\ champion_text' = IF Resolved THEN with_champion_insight(champion_text)
                        ELSE champion_text
    /\ contacts' = DedupCall(contacts, IF Resolved THEN champion_url ELSE NoneText,
                             champion_name)
    /\ main_pc' = "prepend"
    /\ UNCHANGED <<main_frame, champion_name, champion_url, aggregate, url_mappings,
                   grounded_response>>

\* A champion that is put in front only when it was resolved.
PrependResolvedOnly ==
    /\ main_pc = "prepend"
    /\ contacts' = IF Resolved THEN prepend_champion(champion_text, contacts) ELSE contacts
    /\ main_pc' = "strip"
    /\ UNCHANGED <<main_frame, champion_name, champion_text, champion_url, aggregate,
                   url_mappings, grounded_response>>

\* Lines 1793 and 1797-1803
PrependChampion ==
    /\ main_pc = "prepend"
    /\ contacts' = prepend_champion(IF Resolved THEN champion_text
                                    ELSE champion_placeholder(champion_name), contacts)
    /\ main_pc' = "strip"
    /\ UNCHANGED <<main_frame, champion_name, champion_text, champion_url, aggregate,
                   url_mappings, grounded_response>>

\* Line 1806
StripLinkedinLines ==
    /\ main_pc = "strip"
    /\ contacts' = extract_and_strip_linkedin_lines(contacts).text
    /\ url_mappings' = extract_and_strip_linkedin_lines(contacts).url_mappings
    /\ main_pc' = "done"
    /\ UNCHANGED <<main_frame, champion_name, champion_text, champion_url, aggregate,
                   grounded_response>>

NextMain ==
    \/ SearchContacts
    \/ NoChampion
    \/ SearchChampion
    \/ DedupContacts
    \/ PrependChampion
    \/ StripLinkedinLines

SpecMain == InitMain /\ [][NextMain]_vars

\* ------------------------------------ extract_and_strip_linkedin_lines alone
\* A field line.
LineTitle ==
    <<"T", "i", "t", "l", "e", ":", " ", "d">>

\* A link line.
LineLink ==
    <<"L", "i", "n", "k", "e", "d", "I", "n", ":", " ", "h", "t", "t", "p", "s", ":", "/",
      "/", "x">>

\* A link line behind a blank, whose URL ends at a blank.
LineLinkIndented ==
    <<" ", "L", "i", "n", "k", "e", "d", "I", "n", ":", " ", "h", "t", "t", "p", ":", "/", "/",
      "w", " ", "z">>

\* The line the formatter writes for a contact without a URL (line 791).
LineSearchManually ==
    <<"L", "i", "n", "k", "e", "d", "I", "n", ":", " ", "S", "e", "a", "r", "c", "h", " ",
      "m", "a", "n", "u", "a", "l", "l", "y">>

\* The lines a contacts text is made of: names, the empty line, field lines,
\* link lines and the champion marker.
StripLines ==
    {<<"a">>, <<"b", " ">>, <<>>, LineTitle, LineLink, LineLinkIndented,
     LineSearchManually, CHAMPION}

StripTexts == {join(<<"\n">>, ls) : ls \in UNION {[1..n -> StripLines] : n \in 0..MaxStripLines}}

InitStrip ==
    /\ PipelineIdle
    /\ ValidatorIdle
    /\ PassIdle
    /\ main_pc = "strip"
    /\ champion_name = NoneText
    /\ champion_text = NoneText
    /\ champion_url = NoneText
    /\ aggregate \in StripTexts
    /\ contacts = aggregate
    /\ url_mappings = <<>>
    /\ grounded_response = <<>>

NextStrip == StripLinkedinLines

SpecStrip == InitStrip /\ [][NextStrip]_vars

\* ----------------------------------------------------- champion dedup alone
TextAlphabet == {"a", "A", " ", "\n"}

NameAlphabet == {"a", "A", " "}

StringsOver(alphabet, lengths) == UNION {[1..n -> alphabet] : n \in lengths}

ContactsTexts == StringsOver(TextAlphabet, 0..MaxTextLen)

ChampionNames == StringsOver(NameAlphabet, 1..MaxNameLen)

ChampionUrls == {NoneText, <<"a">>, <<"a", "A">>}

InitDedup ==
    /\ PipelineIdle
    /\ ValidatorIdle
    /\ PassIdle
    /\ main_pc = "dedup"
    /\ champion_name \in ChampionNames
    /\ champion_text = NoneText
    /\ champion_url \in ChampionUrls
    /\ aggregate \in ContactsTexts
    /\ contacts = aggregate
    /\ url_mappings = <<>>
    /\ grounded_response = <<>>

\* contacts = deduplicate_champion_from_contacts(contacts, champion_url, champion_name)
Dedup ==
    /\ main_pc = "dedup"
    /\ contacts' = deduplicate_champion_from_contacts(contacts, champion_url, champion_name)
    /\ main_pc' = "deduped"
    /\ UNCHANGED <<pipeline_vars, validator_vars, pass_vars, champion_name, champion_text,
                   champion_url, aggregate, url_mappings, grounded_response>>

\* The same call once more, on the text the first call returned.
DedupAgain ==
    /\ main_pc = "deduped"
    /\ contacts' = deduplicate_champion_from_contacts(contacts, champion_url, champion_name)
    /\ main_pc' = "deduped_again"
    /\ UNCHANGED <<pipeline_vars, validator_vars, pass_vars, champion_name, champion_text,
                   champion_url, aggregate, url_mappings, grounded_response>>

NextDedup == Dedup \/ DedupAgain

SpecDedup == InitDedup /\ [][NextDedup]_vars

\* The blank-line-delimited blocks of a text.
BlocksOf(text) == SelectSeq(re_split_blocks(text), LAMBDA b : b # <<>>)

\* C7: after champion dedup the contacts text has no blank-line-delimited
\* block that contains the champion URL (when one is given), and no block
\* whose first line contains the champion name or is contained in it, letter
\* case apart.
C7_NoChampionBlockLeft ==
    main_pc = "deduped" =>
        \A i \in DOMAIN BlocksOf(contacts) :
            LET block == BlocksOf(contacts)[i]
                first_line == lower(split_lines(block)[1])
            IN /\ champion_url # NoneText => ~In(champion_url, block)
               /\ ~In(lower(champion_name), first_line)
               /\ ~In(first_line, lower(champion_name))

C6_ValidProfileUnaltered ==
    runs > 0 =>
        \A i \in DOMAIN profiles :
            (~has_encoding_issue(profiles[i].key) /\ answers[i].probe = 200) =>
                /\ profiles[i].key \in Keys(revalidated)
                /\ Get(revalidated, profiles[i].key).url = profiles[i].url

\* A second run of the validator, on its own output, with a probe answering 200.
C6_Witness ==
    /\ runs = 2
    /\ \E i \in DOMAIN profiles :
         /\ ~has_encoding_issue(profiles[i].key)
         /\ answers[i].probe = 200
         /\ \E j \in DOMAIN revalidated : revalidated[j] = profiles[i]

\* C9: whatever the providers answer, the call ends - every step brings it
\* closer to its return and it is never stuck before it - and it ends by
\* returning a text (the formatter's, the fallback's, or the empty text);
\* no exception leaves it.
C9_AlwaysReturnsText ==
    /\ [](pc = "done" => /\ ~raised
                         /\ result.from \in {"formatter", "fallback"}
                         /\ result.text \in {"contacts", ""})
    /\ [](pc # "done" => ENABLED Next)
    /\ [][Remaining' < Remaining]_vars

\* The formatter raised and the fallback search had nothing either.
C9_Witness ==
    /\ pc = "done"
    /\ formatter_called /\ fallback_reason = "exception"
    /\ result = [from |-> "fallback", text |-> ""]

\* The passes behind the scheduler's position.
Behind == IF pc = "done" /\ pass_log = <<>> THEN {} ELSE 1..(PcRank[pc] - 1)

Evaluations(pass) == {i \in DOMAIN trigger_log : trigger_log[i][1] = pass}

\* C10: the executed passes are strictly increasing in 1..6 (so each runs
\* at most once and none after a later one started); the unconditional
\* passes behind the scheduler ran; the trigger of each conditional pass
\* behind the scheduler was read exactly once, in the step that follows the
\* preceding pass, against the size its bucket has in that state, and the
\* pass ran exactly when that reading was below 5.
C10_PassOrder ==
    /\ [](/\ \A i, j \in DOMAIN pass_log : i < j => pass_log[i] < pass_log[j]
          /\ Elems(pass_log) \subseteq Behind
          /\ Behind \cap {1, 2, 4} \subseteq Elems(pass_log)
          /\ \A pass \in {3, 5, 6} :
                Cardinality(Evaluations(pass)) = IF pass \in Behind THEN 1 ELSE 0)
    /\ [][/\ trigger_log' # trigger_log =>
               \E pass \in {3, 5, 6} :
                  /\ pc = PcOf(pass)
                  /\ trigger_log' = Append(trigger_log,
                        <<pass, Len(BucketOf(pass)), Len(BucketOf(pass)) < 5>>)
                  /\ (Len(BucketOf(pass)) < 5) <=> (pass_log' = Append(pass_log, pass))
           /\ pass_log' # pass_log =>
               \E p \in 1..6 : pc = PcOf(p) /\ pass_log' = Append(pass_log, p)]_vars

\* A run in which all six passes executed, in order.
C10_Witness == pc = "done" /\ pass_log = <<1, 2, 3, 4, 5, 6>>

\* The step calls search_linkedin_contacts_with_gemini and returns its text.
FallbackInvoked == result.from # "fallback" /\ result'.from = "fallback"

\* C11 as written: the broad grounded search-and-format call is invoked only
\* when the pipeline has validated both buckets and the total of validated
\* profiles is below 3.
C11_FallbackOnlyBelowThree ==
    [][FallbackInvoked => pc = "check_total" /\ total_valid < 3]_vars

\* C11, amended: every result that is not the formatter's text comes from the
\* one broad grounded search-and-format call, and that call is invoked in
\* three situations and no other: Tavily is not available (lines 615-618), an
\* exception reaches the outer handler (lines 818-821: the client could not
\* be built, or the formatter raised with 3 or more validated profiles), or
\* the total of validated profiles is below 3 (lines 729-731).
C11_FallbackSituations ==
    /\ [](pc = "done" /\ ~raised => result.from \in {"fallback", "formatter"})
    /\ [](result.from = "formatter" => formatter_called /\ total_valid >= 3)
    /\ [][FallbackInvoked =>
            \/ pc = "start" /\ ~tavily_configured /\ fallback_reason' = "unavailable"
            \/ pc = "start" /\ tavily_configured /\ fallback_reason' = "exception"
            \/ /\ pc = "check_total" /\ total_valid < 3
               /\ ~formatter_called' /\ fallback_reason' = "too_few"
            \/ /\ pc = "check_total" /\ total_valid >= 3
               /\ formatter_called' /\ fallback_reason' = "exception"]_vars

\* Three profiles were validated, the formatter raised, and the broad search
\* returned contacts.
C11_Witness ==
    /\ pc = "done"
    /\ total_valid >= 3 /\ formatter_called
    /\ result = [from |-> "fallback", text |-> "contacts"]

\* Entry i of the validator's input is unflagged and its probe answered 404.
NotFound(i) == ~has_encoding_issue(profiles[i].key) /\ answers[i].probe = 404

\* The output holds an entry that came from entry i of the input.
InOutput(i) == \E j \in DOMAIN revalidated : revalidated[j].title = profiles[i].title

Unverifiable(i) ==
    /\ ~has_encoding_issue(profiles[i].key)
    /\ answers[i].probe \in {999, 403, 500, RequestException}

\* No entry of the output is under the URL the profile had or was given.
NowhereInOutput(i) ==
    /\ profiles[i].key \notin Keys(revalidated)
    /\ answers[i].fixed_url \notin Keys(revalidated)

ProfileUrlStarts(response) ==
    {i \in DOMAIN response :
        \E p \in ProfileUrlPrefixes :
            /\ i + Len(p) <= Len(response)
            /\ SubSeq(response, i, i + Len(p) - 1) = p
            /\ response[i + Len(p)] \notin Whitespace \cup {",", ")"}}

\* The URL that starts at position i: up to the next whitespace, comma or
\* closing parenthesis, without the full stops it ends in.
ProfileUrlFrom(response, i) ==
    LET ends == {e \in i..Len(response) :
                    /\ \A k \in i..e : response[k] \notin Whitespace \cup {",", ")"}
                    /\ response[e] # "."
                    /\ \A k \in (e + 1)..Len(response) :
                         (\A m \in (e + 1)..k : response[m] \notin Whitespace \cup {",", ")"})
                            => response[k] = "."}
    IN SubSeq(response, i, SetMax(ends))

\* C14: search_champion_contact returns both a text and a URL or neither;
\* when the grounded call raised, answered nothing, or its answer holds no
\* profile-host URL, both are None, and otherwise the URL is the first
\* profile-host URL of the answer.
C14_BothOrNeither ==
    main_pc = "dedup_contacts" =>
        /\ champion_text = NoneText <=> champion_url = NoneText
        /\ IF \/ grounded_response \in {CallRaised, <<>>}
              \/ ProfileUrlStarts(grounded_response) = {}
           THEN champion_text = NoneText /\ champion_url = NoneText
           ELSE /\ champion_text # NoneText
                /\ champion_url = ProfileUrlFrom(grounded_response,
                                                 SetMin(ProfileUrlStarts(grounded_response)))

\* The answer named two profiles, and the first, closed by a parenthesis, was
\* returned with the text.
C14_Witness ==
    /\ main_pc = "dedup_contacts"
    /\ grounded_response = ResponseTwo
    /\ Cardinality(ProfileUrlStarts(grounded_response)) = 2
    /\ champion_url = HttpScheme \o Www \o ProfileHost \o <<"b">>
    /\ champion_text # NoneText

\* sys.argv[3] was given and is not empty (line 1781).
NameSupplied == champion_name \notin {NoneText, <<>>}

\* The champion's block as line 1793 or 1803 wrote it.
ChampionBlock ==
    IF Resolved THEN champion_text ELSE champion_placeholder(champion_name)

\* A text without the lines that hold a link (line 1806).
WithoutLinkLines(text) == extract_and_strip_linkedin_lines(text).text

\* C15: whenever a champion name is supplied, the final contacts text starts
\* with the CHAMPION marker line, the champion's block follows it, and every
\* other block of the text is a contact block of the aggregate text, whether or
\* not the champion was resolved and whatever the aggregate text was.
C15_ChampionLeads ==
    (main_pc = "done" /\ NameSupplied) =>
        LET blocks == BlocksOf(contacts) IN
        /\ startswith(contacts, CHAMPION \o <<"\n">>)
        /\ blocks[1] = CHAMPION \o <<"\n">> \o WithoutLinkLines(ChampionBlock)
        /\ \A i \in 2..Len(blocks) :
             /\ split_lines(blocks[i])[1] # CHAMPION
             /\ \E k \in DOMAIN BlocksOf(aggregate) :
                  blocks[i] = WithoutLinkLines(BlocksOf(aggregate)[k])

\* A resolved champion leads two contact blocks, and its link line is gone.
C15_Witness ==
    /\ main_pc = "done"
    /\ NameSupplied /\ Resolved
    /\ Len(BlocksOf(contacts)) = 3
    /\ ChampionBlock # WithoutLinkLines(ChampionBlock)

\* The URL handed to the dedup call: the champion's when it was resolved.
DedupUrl == IF Resolved THEN champion_url ELSE NoneText

\* The code's two rules for a block of the contacts text.
UrlRule(block) == DedupUrl # NoneText /\ In(DedupUrl, block)

NameRule(block) ==
    LET first_line == lower(strip(split_lines(block)[1])) IN
    In(lower(champion_name), first_line) \/ In(first_line, lower(champion_name))

\* C16: whenever a champion name is supplied, the contacts text the champion
\* block is put in front of is the aggregate text without the blocks the
\* dedup rules remove - resolved or not - and it holds no champion block
\* yet; without a champion URL the first-line name rule alone removes blocks;
\* the prepend is the step after the dedup and leaves the deduped text
\* behind the champion block.
C16_DedupBeforePrepend ==
    /\ [](main_pc = "prepend" =>
            /\ NameSupplied
            /\ ~startswith(contacts, CHAMPION)
            /\ champion_url = NoneText => DedupUrl = NoneText
            /\ BlocksOf(contacts) =
                 SelectSeq(BlocksOf(aggregate), LAMBDA b : ~UrlRule(b) /\ ~NameRule(b)))
    /\ [][(NameSupplied /\ main_pc' = "strip") =>
            /\ main_pc = "prepend"
            /\ contacts' = CHAMPION \o <<"\n">> \o ChampionBlock \o <<"\n", "\n">> \o contacts]_vars
    /\ [][main_pc' = "prepend" =>
            /\ main_pc = "dedup_contacts"
            /\ contacts = aggregate]_vars

\* Without a URL the name rule took one of two blocks out, and the prepend
\* is still to come.
C16_Witness ==
    /\ main_pc = "prepend"
    /\ champion_url = NoneText
    /\ Len(BlocksOf(aggregate)) = 2
    /\ Len(BlocksOf(contacts)) = 1

\* The bucket a pass merges into, and the other one.
TargetOf(pass, marketing, leadership) == IF pass <= 3 THEN marketing ELSE leadership

OtherOf(pass, marketing, leadership) == IF pass <= 3 THEN leadership ELSE marketing

\* C17: a merge adds a profile of the pass to the target bucket exactly when
\* its URL is not in seen_urls; a profile whose URL was seen, from either
\* bucket, is discarded; every entry stored before stays where it is in its
\* bucket, unchanged; the returned count is the number of profiles added.
C17_MergeAddsUnseen ==
    [][pass_log' # pass_log =>
        LET pass == pass_log'[Len(pass_log')]
            target == TargetOf(pass, marketing_profiles, leadership_profiles)
            target_after == TargetOf(pass, marketing_profiles', leadership_profiles')
            other == OtherOf(pass, marketing_profiles, leadership_profiles)
            other_after == OtherOf(pass, marketing_profiles', leadership_profiles')
            fresh == {i \in DOMAIN pass_profiles' : pass_profiles'[i].key \notin seen_urls}
        IN /\ \A i \in DOMAIN pass_profiles' :
                LET p == pass_profiles'[i] IN
                /\ i \in fresh <=>
                     \E k \in (Len(target) + 1)..Len(target_after) : target_after[k] = p
                /\ i \notin fresh =>
                     \A k \in DOMAIN target_after :
                        target_after[k].key = p.key => (k <= Len(target) /\ target_after[k] = target[k])
           /\ SubSeq(target_after, 1, Len(target)) = target
           /\ other_after = other
           /\ Len(target_after) = Len(target) + Cardinality(fresh)
           /\ added' = Cardinality(fresh)
           /\ seen_urls' = seen_urls \cup Keys(pass_profiles')]_vars

\* A leadership pass returned two profiles: one the marketing bucket holds
\* from another query, which was discarded, and one that was added.
C17_Witness ==
    /\ LastPass >= 4
    /\ Len(pass_profiles) = 2
    /\ added = 1
    /\ \E i \in DOMAIN pass_profiles : \E k \in DOMAIN marketing_profiles :
         /\ marketing_profiles[k].key = pass_profiles[i].key
         /\ marketing_profiles[k].query # pass_profiles[i].query

\* The profile URLs among the results of a query.
ProfilesOf(outcome) == {outcome[i] : i \in {j \in DOMAIN outcome : IsProfileUrl(outcome[j])}}

\* C18: in the keyword adapter a query that failed does not end the batch:
\* the queries are issued one after the other in their order, all of them
\* before the map is returned, and the returned map holds every profile of
\* every query that succeeded, before and after a failed one.
C18_FailedQuerySkipped ==
    /\ issued = [i \in 1..Len(issued) |-> i]
    /\ adapter_pc = "returned" =>
         /\ Len(issued) = Len(query_outcomes)
         /\ \A q \in DOMAIN query_outcomes :
              Succeeded(query_outcomes[q]) =>
                  ProfilesOf(query_outcomes[q]) \subseteq Keys(pass_profiles)
         /\ pass_profiles = _tavily_linkedin_search(query_outcomes, 1)

\* The second of three queries raised; the first and the third each found a
\* profile of their own.
C18_Witness ==
    /\ adapter_pc = "returned"
    /\ ~Succeeded(query_outcomes[2])
    /\ Succeeded(query_outcomes[1]) /\ Succeeded(query_outcomes[3])
    /\ ProfilesOf(query_outcomes[1]) = {1}
    /\ ProfilesOf(query_outcomes[3]) = {2}

\* Every Profile the call holds: in the two buckets and in the dict a running
\* validation is building.
AllProfiles ==
    Elems(marketing_profiles) \cup Elems(leadership_profiles) \cup Elems(validated_profiles)

AllProfilesAfter ==
    Elems(marketing_profiles') \cup Elems(leadership_profiles') \cup Elems(validated_profiles')

SameData(e, f) == e.title = f.title /\ e.snippet = f.snippet /\ e.query = f.query

\* The step is a turn of the validator's loop on entry e, whose repair search ran.
RepairSearched(e) ==
    /\ pc \in {"validate_marketing", "validate_leadership"}
    /\ vidx' = vidx + 1
    /\ e = (IF pc = "validate_marketing" THEN marketing_profiles ELSE leadership_profiles)[vidx]
    /\ has_encoding_issue(e.key) \/ not_found' = not_found + 1

\* C19: a Profile keeps the title, snippet and query its adapter gave it
\* through every later step, and its url changes only in a turn of the
\* validator on that Profile whose repair search returned a URL other than
\* the Profile's; every other Profile a step leaves behind was created by the
\* pass that just ran.
C19_ProfileImmutableButUrl ==
    [][\A f \in AllProfilesAfter :
         \/ \E e \in AllProfiles : SameData(e, f) /\ f.url = e.url
         \/ \E e \in AllProfiles :
              /\ SameData(e, f)
              /\ RepairSearched(e)
              /\ f.url \in RepairOutcomes \ {None, e.url}
         \/ /\ pass_log' # pass_log
            /\ f.key = f.url /\ f.title = f.url /\ f.snippet = f.url
            /\ f.query \div 10 = pass_log'[Len(pass_log')]]_vars

\* Both validations are over, and a Profile holds a URL it was not created
\* with, next to the title and snippet it was created with.
C19_Witness ==
    /\ pc = "check_total"
    /\ \E e \in AllProfiles : e.url # e.title /\ e.snippet = e.title
    /\ \E e \in AllProfiles : e.url = e.title

\* The position behind a conditional pass.
BehindPass(pass) == IF pass = 6 THEN "validate_marketing" ELSE PcOf(pass + 1)

\* C20: a bucket short of 5 entries is answered with the next pass, not with
\* an error: after pass 2's merge a MARKETING bucket under 5 has pass 3
\* execute, after pass 4's merge a LEADERSHIP bucket under 5 has pass 5
\* execute, and after pass 5 a LEADERSHIP bucket still under 5 has pass 6
\* execute; the pass merges into that bucket and the call goes on, and no
\* trigger read below 5 is left without its pass.
C20_ShortfallEscalates ==
    /\ [][\A pass \in {3, 5, 6} :
            (pc = PcOf(pass) /\ Len(BucketOf(pass)) < 5)
                => /\ pass_log' = Append(pass_log, pass)
                   /\ pc' = BehindPass(pass)
                   /\ result' = result /\ raised' = raised
                   /\ LET after == IF pass <= 3 THEN marketing_profiles' ELSE leadership_profiles'
                      IN SubSeq(after, 1, Len(BucketOf(pass))) = BucketOf(pass)]_vars
    /\ [](\A i \in DOMAIN trigger_log :
            trigger_log[i][2] < 5 => trigger_log[i][1] \in Elems(pass_log))

\* Pass 3 found a MARKETING bucket under 5 and took it to 5 or more; passes
\* 5 and 6 both ran on a LEADERSHIP bucket that held entries but under 5.
C20_Witness ==
    /\ pc = "validate_marketing"
    /\ \E i \in DOMAIN trigger_log :
         trigger_log[i][1] = 3 /\ trigger_log[i][2] \in 1..4 /\ trigger_log[i][3]
    /\ Len(marketing_profiles) >= 5
    /\ \E i, j \in DOMAIN trigger_log :
         /\ trigger_log[i][1] = 5 /\ trigger_log[i][3]
         /\ trigger_log[j][1] = 6 /\ trigger_log[j][2] \in 1..4 /\ trigger_log[j][3]

\* Entry i of the validator's input holds one of the five escape patterns.
Flagged(i) == has_encoding_issue(profiles[i].key)

\* C21: a URL flagged by the structural check is not probed, and it is not
\* dropped: the output holds an entry under the repaired URL, with that url,
\* when the repair search found a URL other than the flagged one, and an
\* entry under the flagged URL, with the url it had, otherwise.
C21_FlaggedNeverDropped ==
    runs > 0 =>
        \A i \in DOMAIN profiles :
            Flagged(i) =>
                /\ answers[i].probe = None
                /\ IF answers[i].fixed_url \notin {None, profiles[i].key}
                   THEN /\ answers[i].fixed_url \in Keys(revalidated)
                        /\ Get(revalidated, answers[i].fixed_url).url = answers[i].fixed_url
                   ELSE /\ profiles[i].key \in Keys(revalidated)
                        /\ Get(revalidated, profiles[i].key).url = profiles[i].url

\* One run met two flagged URLs: the search found nothing for one, which is
\* in the output as it was, and another URL for the other.
C21_Witness ==
    /\ runs > 0
    /\ \E i, k \in DOMAIN profiles :
         /\ Flagged(i) /\ answers[i].fixed_url = None
         /\ \E j \in DOMAIN revalidated : revalidated[j] = profiles[i]
         /\ Flagged(k) /\ answers[k].fixed_url \notin {None, profiles[k].key}
         /\ \E j \in DOMAIN revalidated :
              /\ revalidated[j].key = answers[k].fixed_url
              /\ revalidated[j].title = profiles[k].title

\* The queries issued so far whose results hold the URL.
ReturnedBy(url) == {q \in DOMAIN issued : url \in ProfilesOf(query_outcomes[q])}

\* C22: the keyword adapter's map holds one entry, and only one, for each
\* URL with the personal-profile path that a query handed to the loop - so
\* for each one a successful query returned - and none for any other URL;
\* the entry is keyed by the URL and carries the row data and the query of
\* the earliest query that returned the URL.
C22_OneEntryPerProfileUrl ==
    /\ \A i, j \in DOMAIN pass_profiles :
          pass_profiles[i].key = pass_profiles[j].key => i = j
    /\ Keys(pass_profiles) = {url \in 0..NumAdapterUrls : ReturnedBy(url) # {}}
    /\ \A i \in DOMAIN pass_profiles :
          LET e == pass_profiles[i] IN
          /\ IsProfileUrl(e.key)
          /\ e.url = e.key /\ e.title = e.key /\ e.snippet = e.key
          /\ e.query = 10 + SetMin(ReturnedBy(e.key))
    /\ adapter_pc = "returned" =>
          \A q \in DOMAIN query_outcomes :
              Succeeded(query_outcomes[q]) =>
                  ProfilesOf(query_outcomes[q]) \subseteq Keys(pass_profiles)

\* The first and the third query both succeeded and both returned profile 1,
\* the third next to the page 0; the map holds profile 1 from the first.
C22_Witness ==
    /\ adapter_pc = "returned"
    /\ Succeeded(query_outcomes[1]) /\ 1 \in ProfilesOf(query_outcomes[1])
    /\ query_outcomes[3] = <<0, 1>>
    /\ Keys(pass_profiles) = {1}
    /\ pass_profiles[1].query = 11

\* The text main hands to extract_and_strip_linkedin_lines, line by line.
InputLines == split_lines(aggregate)

\* Where a URL starts in a line: a scheme and a character that is not
\* whitespace behind it.
UrlStartsIn(line) ==
    {i \in DOMAIN line :
        \E scheme \in {HttpScheme, HttpsScheme} :
            /\ i + Len(scheme) <= Len(line)
            /\ SubSeq(line, i, i + Len(scheme) - 1) = scheme
            /\ line[i + Len(scheme)] \notin Whitespace}

\* The URL of a line that holds one: from its first start to the character
\* before the next whitespace.
UrlIn(line) ==
    LET start == SetMin(UrlStartsIn(line))
        stops == {j \in start..Len(line) : j = Len(line) \/ line[j + 1] \in Whitespace}
    IN SubSeq(line, start, SetMin(stops))

IsLabelLine(line) == \E l \in FieldLabels : startswith(line, l)

\* The lines among the three before line i that can name a contact.
NameLinesBefore(i) ==
    {k \in DOMAIN InputLines :
        /\ i - 3 <= k /\ k < i
        /\ strip(InputLines[k]) # <<>>
        /\ ~IsLabelLine(strip(InputLines[k]))}

\* The text consists of these lines (no line: the empty text).
LinesAre(text, lines) == IF lines = <<>> THEN text = <<>> ELSE split_lines(text) = lines

\* C23 as written: the lines removed are exactly those that start with
\* 'LinkedIn:' and hold an http(s) URL, every other line stays as it is and in
\* order, and each such URL is mapped to the nearest line among the three
\* before it that is not empty, not a field label and not the marker.
C23_RemovesLinesStartingWithLabel ==
    (main_pc = "done" /\ aggregate # <<>>) =>
        LET removed == {i \in DOMAIN InputLines :
                           startswith(InputLines[i], LinkedInLabel) /\ UrlStartsIn(InputLines[i]) # {}}
        IN /\ LinesAre(contacts,
                SelectSeq(InputLines, LAMBDA l : ~(startswith(l, LinkedInLabel) /\ UrlStartsIn(l) # {})))
           /\ \A i \in removed :
                NameLinesBefore(i) # {} =>
                    LET name == strip(InputLines[SetMax(NameLinesBefore(i))]) IN
                    /\ name \in DOMAIN url_mappings
                    /\ url_mappings[name] = UrlIn(InputLines[i])

\* A line is a link line when, without the whitespace around it, it starts
\* with 'LinkedIn:' and holds an http(s) URL.
IsLinkLine(line) == startswith(strip(line), LinkedInLabel) /\ UrlStartsIn(line) # {}

LinkLines == {i \in DOMAIN InputLines : IsLinkLine(InputLines[i])}

\* The name a link line resolves to, for the link lines that have one.
NameOf(i) == strip(InputLines[SetMax(NameLinesBefore(i))])

Named == {i \in LinkLines : NameLinesBefore(i) # {}}

\* C23, amended: the lines removed are exactly those that, without the
\* whitespace around them, start with 'LinkedIn:' and hold an http(s) URL;
\* every other line stays as it is and in order; each such line resolves to
\* the nearest line among the three before it that, stripped, is not empty
\* and starts with no field label and not with CHAMPION; the mapping holds
\* exactly the names resolved to, stripped, each with the URL of the last
\* link line that resolves to it.
C23_StripsLinkLines ==
    /\ (main_pc = "done" /\ aggregate # <<>>) =>
          /\ LinesAre(contacts, SelectSeq(InputLines, LAMBDA l : ~IsLinkLine(l)))
          /\ DOMAIN url_mappings = {NameOf(i) : i \in Named}
          /\ \A i \in Named :
                url_mappings[NameOf(i)] =
                    UrlIn(InputLines[SetMax({k \in Named : NameOf(k) = NameOf(i)})])
    /\ (main_pc = "done" /\ aggregate = <<>>) => (contacts = <<>> /\ DOMAIN url_mappings = {})

\* A name with a blank behind it, the line of a contact without a URL, and
\* two link lines, the first of them behind a blank: both link lines are
\* gone, the other two lines are left, and the name, stripped, is mapped to
\* the URL of the second link line.
C23_Witness ==
    /\ main_pc = "done"
    /\ InputLines = <<<<"b", " ">>, LineSearchManually, LineLinkIndented, LineLink>>
    /\ split_lines(contacts) = <<<<"b", " ">>, LineSearchManually>>
    /\ url_mappings = [n \in {<<"b">>} |-> <<"h", "t", "t", "p", "s", ":", "/", "/", "x">>]

\* The call is at one of its six passes, or behind the last one with the
\* buckets as the passes left them.
DuringPasses == pc \in {"pass1", "pass2", "pass3", "pass4", "pass5", "pass6"}

IsPrefix(s, t) == Len(s) <= Len(t) /\ SubSeq(t, 1, Len(s)) = s

\* C24: from the first pass to the end of the last, seen_urls is the union of
\* the key sets of the two buckets, and a step of a pass leaves every entry
\* of either bucket where it was, as it was: entries are only added.
C24_SeenIsUnionOfKeys ==
    /\ []((DuringPasses \/ AfterLastPass) =>
            seen_urls = Keys(marketing_profiles) \cup Keys(leadership_profiles))
    /\ [][DuringPasses =>
            /\ IsPrefix(marketing_profiles, marketing_profiles')
            /\ IsPrefix(leadership_profiles, leadership_profiles')
            /\ seen_urls \subseteq seen_urls']_vars

\* All six passes ran, some URL came back more than once, and both buckets
\* hold entries.
C24_Witness ==
    /\ AfterLastPass /\ vidx = 1
    /\ Len(pass_log) = 6
    /\ dup_returned
    /\ Len(marketing_profiles) >= 2 /\ Len(leadership_profiles) >= 2
    /\ Cardinality(seen_urls) = Len(marketing_profiles) + Len(leadership_profiles)

\* The trigger of the pass was read and the pass was skipped.
Skipped(pass) ==
    \E i \in DOMAIN trigger_log : trigger_log[i][1] = pass /\ ~trigger_log[i][3]

\* C25: pass 6 executes only in runs in which pass 5 executed: once pass 5
\* was skipped - LEADERSHIP held 5 entries or more - pass 6 does not run, and
\* a step that runs pass 6 starts from a run that holds pass 5.
C25_Pass6OnlyAfterPass5 ==
    /\ [](6 \in Elems(pass_log) => 5 \in Elems(pass_log))
    /\ [](Skipped(5) => 6 \notin Elems(pass_log))
    /\ []((Skipped(5) /\ pc = "pass6") => Len(leadership_profiles) >= 5)
    /\ [][(pc = "pass6" /\ Skipped(5)) =>
            (pass_log' = pass_log /\ leadership_profiles' = leadership_profiles)]_vars

\* Pass 4 filled LEADERSHIP: pass 5 and pass 6 were both skipped.
C25_Witness ==
    /\ AfterLastPass
    /\ Skipped(5) /\ Skipped(6)
    /\ Len(leadership_profiles) = 5
    /\ Elems(pass_log) \cap {4, 5, 6} = {4}

\* The validator's 'removed' count (skipped_count, lines 893 and 907): the
\* entries whose probe answered 404 and whose repair found no other URL.
SkippedCount ==
    Cardinality({i \in DOMAIN profiles :
                    NotFound(i) /\ answers[i].fixed_url \in {None, profiles[i].key}})

\* C26: the validator's output holds one entry for each input profile that
\* was not dropped after a 404 with a failed repair: its size is the size of
\* the input minus the 'removed' count, and every such profile has its entry.
C26_OutputCountsInputs ==
    runs > 0 =>
        /\ Len(revalidated) = Len(profiles) - SkippedCount
        /\ \A i \in DOMAIN profiles :
              ~(NotFound(i) /\ answers[i].fixed_url \in {None, profiles[i].key}) => InOutput(i)

KeyedByUrl(d) == \A i \in DOMAIN d : d[i].url = d[i].key

\* C27: every entry of a bucket is stored under its own url: after each pass,
\* in the dict a validation is building, in the MARKETING bucket validation
\* returned, and in both buckets when they are handed to the formatter.
C27_EntriesKeyedByUrl ==
    /\ (DuringPasses \/ (AfterLastPass /\ vidx = 1) \/ pc = "check_total") =>
          (KeyedByUrl(marketing_profiles) /\ KeyedByUrl(leadership_profiles))
    /\ pc = "validate_leadership" => KeyedByUrl(marketing_profiles)
    /\ KeyedByUrl(validated_profiles)

\* Three or more validated profiles are about to go to the formatter, one of
\* them under a repaired URL.
C27_Witness ==
    /\ pc = "check_total"
    /\ total_valid >= 3
    /\ \E e \in AllProfiles : e.url # e.title /\ e.key = e.url

\* C28: whenever champion resolution returned a URL, the text it returned is
\* not empty and holds that URL, so that main takes the branch of a resolved
\* champion (line 1783) and not the placeholder branch.
C28_UrlComesWithText ==
    (main_pc \in {"dedup_contacts", "prepend", "strip", "done"} /\ champion_url # NoneText) =>
        /\ Resolved
        /\ In(champion_url, champion_text)

\* The block holds the champion URL, when there is one.
HoldsChampionUrl(block) == champion_url \notin {NoneText, <<>>} /\ In(champion_url, block)

\* The first line of the block, stripped, matches the champion name as a
\* substring in either direction, letter case apart.
FirstLineMatches(block) ==
    LET first_line == lower(strip(split_lines(strip(block))[1])) IN
    In(lower(champion_name), first_line) \/ In(first_line, lower(champion_name))

\* The blocks of the input that dedup has to retain.
Retained ==
    SelectSeq(BlocksOf(aggregate),
              LAMBDA b : strip(b) # <<>> /\ ~HoldsChampionUrl(b) /\ ~FirstLineMatches(b))

\* The lines of a block, without those that hold nothing but whitespace.
NonBlankLines(block) == SelectSeq(split_lines(block), LAMBDA l : strip(l) # <<>>)

\* C29 as written: the text after dedup consists of the non-empty blocks that
\* neither hold the champion URL nor match the name on their first line, in
\* their order and with their lines as they were; a second dedup with the
\* same champion returns the same text.
C29_RetainsBlocksUnchanged ==
    /\ [](main_pc = "deduped" =>
            /\ Len(BlocksOf(contacts)) = Len(Retained)
            /\ \A i \in DOMAIN Retained :
                  split_lines(BlocksOf(contacts)[i]) = NonBlankLines(Retained[i]))
    /\ [][main_pc = "deduped" => contacts' = contacts]_vars

\* C29, amended: the text after dedup consists of the non-empty blocks that
\* neither hold the champion URL nor match the name on their first line, in
\* their order, each without the whitespace around it and with the lines
\* inside it as they were; a second dedup with the same champion returns the
\* same text.
C29_RetainsBlocksStripped ==
    /\ [](main_pc = "deduped" =>
            /\ BlocksOf(contacts) = [i \in DOMAIN Retained |-> strip(Retained[i])]
            /\ Retained = <<>> => contacts = <<>>)
    /\ [][main_pc = "deduped" => contacts' = contacts]_vars

\* A block with blanks around it that matches the champion neither way was
\* retained without them, and the second dedup has run.
C29_Witness ==
    /\ main_pc = "deduped_again"
    /\ champion_name = <<"a", "A">>
    /\ aggregate = <<" ", "a", " ", "a", " ">>
    /\ contacts = <<"a", " ", "a">>

\* The first n entries of a bucket, at most cap of them.
Listed(bucket, cap) == IF Len(bucket) < cap THEN Len(bucket) ELSE cap

\* Row r of the prompt shows entry e under the tag.
RowShows(r, e, tag) ==
    /\ r.bucket = tag
    /\ r.url = e.url
    /\ r.title = e.title
    /\ r.snippet = e.snippet
    /\ r.query = e.query

\* C30: the rows handed to the two-bucket formatter are the first entries of
\* the MARKETING bucket, at most 15 of them, followed by the first entries of
\* the LEADERSHIP bucket, at most 10 of them, each bucket in its insertion
\* order, every MARKETING row before every LEADERSHIP row, and each row
\* tagged with the bucket that holds its entry.
C30_PromptListsBothBuckets ==
    [][(formatter_called' /\ ~formatter_called) =>
        LET nm == Listed(marketing_profiles, 15)
            nl == Listed(leadership_profiles, 10)
        IN /\ Len(profiles_text') = nm + nl
           /\ \A i \in 1..nm :
                RowShows(profiles_text'[i], marketing_profiles[i], "MARKETING")
           /\ \A j \in 1..nl :
                RowShows(profiles_text'[nm + j], leadership_profiles[j], "LEADERSHIP")
           /\ \A a, b \in 1..(nm + nl) :
                (profiles_text'[a].bucket = "MARKETING"
                    /\ profiles_text'[b].bucket = "LEADERSHIP") => a < b]_vars

\* The formatter was handed 25 rows out of 17 MARKETING and 12 LEADERSHIP
\* entries: 15 MARKETING rows, then 10 LEADERSHIP rows.
C30_Witness ==
    /\ pc = "done"
    /\ formatter_called
    /\ total_valid = 29
    /\ Len(profiles_text) = 25
    /\ profiles_text[15].bucket = "MARKETING"
    /\ profiles_text[16].bucket = "LEADERSHIP"
    /\ profiles_text[15].url # profiles_text[14].url + 1
====
